---- MODULE Spec2Model ----
(***************************************************************************)
(* Verification model of the Tally fulfillment/inventory application:      *)
(*   - lib/orderUtils.ts        generateOrderCode, calculateSellable       *)
(*   - products page            getSellableQuantity                        *)
(*   - materials page           loadMaterials, updateQuantity, +/- buttons *)
(*   - integrations page        handleFileUpload, importOrders             *)
(*   - order detail page        loadOrder, updateOrderStatus, the buttons  *)
(*   - fulfillment page         loadData, updateOrderStatus                *)
(*   - materials/products page  addMaterial, addProduct, updateProduct     *)
(*   - fulfillment page         QuickOrderDialog, createQuickOrder         *)
(*   - supabase-schema.sql      orders table, idx_orders_channel_external_id*)
(* JavaScript strings are modelled as sequences of one-character strings.  *)
(***************************************************************************)
EXTENDS Integers, Sequences, FiniteSets, TLC

VARIABLES
    \* ---- Bill-of-Materials calculator (products page)
    bom,            \* product.bom: [isNull, items], items a sequence of {materialId, qty}
    materialsMap,   \* Map<materialId, {on_hand}> built by loadData
    sellable,       \* last result of calculateSellable (-1: not called yet)
    rendered,       \* last result of getSellableQuantity
    calcPc,
    \* ---- order code generator
    orderId,        \* argument of generateOrderCode
    year,           \* new Date().getFullYear()
    code,           \* last result of generateOrderCode
    codePc,
    \* ---- inventory ledger (materials page, one per session)
    dbOnHand,       \* materials.on_hand in the database
    display,        \* the `materials` React state of each session
    ops,            \* loadMaterials / updateQuantity calls, in flight and finished
    \* ---- CSV import (integrations page, one per session) and the orders tables
    orders,         \* rows of table orders
    orderLines,     \* rows of table order_lines
    imp,            \* per session: position and locals of handleFileUpload/importOrders
    \* ---- order status (order detail page and fulfillment page, one per session)
    detail,         \* OrderDetailPage state: order, carrier, tracking (and the last toast)
    fulfillment,    \* FulfillmentPage state: orders (and the last toast)
    statusOps,      \* per session: its loadOrder / loadData / updateOrderStatus calls in flight
    statusCalls,    \* updateOrderStatus calls made so far
    \* ---- SKUs (materials page and products page, one per session)
    catalogDb,      \* rows (id, sku) of tables materials and products
    catalog,        \* per session: the materials and products lists, editingProduct, last toast
    \* ---- manual order creation (fulfillment page, one per session)
    quick           \* per session: isAddDialogOpen, position and locals of createQuickOrder

calcVars   == <<bom, materialsMap, sellable, rendered, calcPc>>
codeVars   == <<orderId, year, code, codePc>>
ledgerVars == <<dbOnHand, display, ops>>
importVars == <<orders, orderLines, imp>>
statusVars == <<detail, fulfillment, statusOps, statusCalls>>
catalogVars == <<catalogDb, catalog>>
quickVars  == <<quick>>
vars == <<bom, materialsMap, sellable, rendered, calcPc,
          orderId, year, code, codePc,
          dbOnHand, display, ops,
          orders, orderLines, imp,
          detail, fulfillment, statusOps, statusCalls,
          catalogDb, catalog,
          quick>>

\* What the operations of one page leave alone: the state of the other pages.
CalcFrame   == UNCHANGED <<codeVars, ledgerVars, importVars, statusVars, catalogVars, quickVars>>
CodeFrame   == UNCHANGED <<calcVars, ledgerVars, importVars, statusVars, catalogVars, quickVars>>
LedgerFrame == UNCHANGED <<calcVars, codeVars, importVars, statusVars, catalogVars, quickVars>>
ImportFrame == UNCHANGED <<calcVars, codeVars, ledgerVars, statusVars, catalogVars, quickVars>>
StatusFrame == UNCHANGED <<calcVars, codeVars, ledgerVars, orderLines, imp, catalogVars, quickVars>>
CatalogFrame == UNCHANGED <<calcVars, codeVars, ledgerVars, importVars, statusVars, quickVars>>
QuickFrame  == UNCHANGED <<calcVars, codeVars, ledgerVars, imp, detail, fulfillment, statusCalls,
                           catalogVars>>

\* ------------------------------------------------------------------ bounds
MaxBomLen  == 2     \* longest BOM enumerated
MaxQty     == 5     \* largest BOM qty enumerated
MaxOnHand  == 12    \* largest on_hand in the calculator's lookup

\* ------------------------------------------------------------ small helpers
Max(a, b) == IF a >= b THEN a ELSE b

SeqsUpTo(S, n) == UNION {[1..k -> S] : k \in 0..n}

\* Characters of Number.prototype.toString(radix): digit d is Lower36[d + 1].
Lower36 == <<"0","1","2","3","4","5","6","7","8","9",
             "a","b","c","d","e","f","g","h","i","j","k","l","m",
             "n","o","p","q","r","s","t","u","v","w","x","y","z">>
Upper36 == <<"0","1","2","3","4","5","6","7","8","9",
             "A","B","C","D","E","F","G","H","I","J","K","L","M",
             "N","O","P","Q","R","S","T","U","V","W","X","Y","Z">>

\* Number.prototype.toString() of a non-negative integer that fits TLC's integers.
RECURSIVE DecimalDigits(_)
DecimalDigits(n) ==
    IF n < 10 THEN <<Lower36[n + 1]>>
    ELSE Append(DecimalDigits(n \div 10), Lower36[(n % 10) + 1])

\* ============================================================================
\* Bill-of-Materials calculator
\* ============================================================================
MaterialIds == {"m1", "m2", "gone"}     \* "gone" is never in the lookup
StockedIds  == {"m1", "m2"}

\* The initial accumulator of reduce: larger than every floor(on_hand / qty).
Infinity == MaxOnHand + 1

MathMin(a, b) == IF a <= b THEN a ELSE b

\* Math.floor(on_hand / qty) for qty > 0.
PossibleQty(on_hand, qty) == on_hand \div qty

\* Faulty variant of the callback: a missing material is skipped.
SellableStepSkipMissing(minSellable, item, map) ==
    IF item.materialId \notin DOMAIN map THEN minSellable
    ELSE MathMin(minSellable, PossibleQty(map[item.materialId].on_hand, item.qty))

\* Faulty variant of the callback: the accumulator is ignored.
SellableStepLastWins(minSellable, item, map) ==
    IF item.materialId \notin DOMAIN map THEN 0
    ELSE PossibleQty(map[item.materialId].on_hand, item.qty)

\* One call of the reduce callback.
SellableStep(minSellable, item, map) ==
    IF item.materialId \notin DOMAIN map THEN 0
    ELSE MathMin(minSellable, PossibleQty(map[item.materialId].on_hand, item.qty))

RECURSIVE SellableReduce(_, _, _, _)
SellableReduce(items, map, acc, i) ==
    IF i > Len(items) THEN acc
    ELSE SellableReduce(items, map, SellableStep(acc, items[i], map), i + 1)

calculateSellable(b, map) ==
    IF b.isNull \/ Len(b.items) = 0 THEN 0
    ELSE SellableReduce(b.items, map, Infinity, 1)

\* The text the products page shows for an empty BOM.
EmDash == <<"EmDash">>

NumberToString(n) ==
    IF n = Infinity THEN <<"I","n","f","i","n","i","t","y">> ELSE DecimalDigits(n)

\* Faulty variant: no guard for the empty BOM.
getSellableQuantityNoGuard(b, map) == NumberToString(calculateSellable(b, map))

getSellableQuantity(b, map) ==
    IF b.isNull \/ Len(b.items) = 0 THEN EmDash
    ELSE NumberToString(calculateSellable(b, map))

BomItems  == [materialId : MaterialIds, qty : 1..MaxQty]
BomValues == {[isNull |-> TRUE, items |-> <<>>]}
             \cup {[isNull |-> FALSE, items |-> s] : s \in SeqsUpTo(BomItems, MaxBomLen)}
\* The on_hand values enumerated for the lookup.
OnHandValues == {v \in {0, 1, 9, 10, 12} : v <= MaxOnHand} \cup {MaxOnHand}

MapValues == [StockedIds -> [on_hand : OnHandValues]]

CalcIdle ==
    /\ bom = [isNull |-> TRUE, items |-> <<>>]
    /\ materialsMap = [m \in StockedIds |-> [on_hand |-> 0]]
    /\ sellable = -1
    /\ rendered = <<>>
    /\ calcPc = "idle"

CalcInit ==
    /\ bom \in BomValues
    /\ materialsMap \in MapValues
    /\ sellable = -1
    /\ rendered = <<>>
    /\ calcPc = "loaded"

\* A direct call of calculateSellable(product.bom, materialsMap).
Calculate ==
    /\ calcPc = "loaded"
    /\ sellable' = calculateSellable(bom, materialsMap)
    /\ calcPc' = "calculated"
    /\ UNCHANGED <<bom, materialsMap, rendered>>
    /\ CalcFrame

\* The products page renders "Sellable: {getSellableQuantity(product)}".
Render ==
    /\ calcPc \in {"loaded", "calculated"}
    /\ rendered' = getSellableQuantity(bom, materialsMap)
    /\ calcPc' = "rendered"
    /\ UNCHANGED <<bom, materialsMap, sellable>>
    /\ CalcFrame

\* ============================================================================
\* Order code generator (lib/orderUtils.ts)
\* ============================================================================
MaxIdTail == 3      \* enumerated characters at the end of an identifier

\* A call without argument binds orderId to undefined; reading a property of
\* undefined throws a TypeError.
\* null, as a column value and as a React state.
Null == "null"

Undefined == <<"undefined">>
TypeError == <<"TypeError">>

IsHexChar(c) == \E d \in 0..15 : Lower36[d + 1] = c \/ Upper36[d + 1] = c
HexValue(c)  == CHOOSE d \in 0..15 : Lower36[d + 1] = c \/ Upper36[d + 1] = c

\* String.prototype.replace(/-/g, '')
RECURSIVE StripHyphens(_)
StripHyphens(s) ==
    IF s = <<>> THEN <<>>
    ELSE IF Head(s) = "-" THEN StripHyphens(Tail(s))
    ELSE <<Head(s)>> \o StripHyphens(Tail(s))

\* String.prototype.slice(-n)
SliceLast(s, n) == IF Len(s) <= n THEN s ELSE SubSeq(s, Len(s) - n + 1, Len(s))

\* The longest prefix of hexadecimal digits, as digit values.
RECURSIVE HexPrefix(_)
HexPrefix(s) ==
    IF s = <<>> \/ ~IsHexChar(Head(s)) THEN <<>>
    ELSE <<HexValue(Head(s))>> \o HexPrefix(Tail(s))

RECURSIVE StripLeadingZeros(_)
StripLeadingZeros(ds) ==
    IF ds # <<>> /\ Head(ds) = 0 THEN StripLeadingZeros(Tail(ds)) ELSE ds

\* parseInt(s, 16): NaN when s starts with no hexadecimal digit, otherwise the
\* value of the longest hexadecimal prefix.  A number is kept as its base-16
\* digits without leading zeros (zero is the empty sequence): 8 digits exceed
\* 2^31 but are exact in a JavaScript number.
parseInt16(s) ==
    LET ds == HexPrefix(s)
    IN  IF ds = <<>> THEN [nan |-> TRUE, hex |-> <<>>]
        ELSE [nan |-> FALSE, hex |-> StripLeadingZeros(ds)]

\* Long division of a base-16 digit sequence by 36: <<quotient digits, remainder>>.
RECURSIVE DivMod36(_, _, _)
DivMod36(ds, quot, rem) ==
    IF ds = <<>> THEN <<StripLeadingZeros(quot), rem>>
    ELSE LET cur == rem * 16 + Head(ds)
         IN  DivMod36(Tail(ds), Append(quot, cur \div 36), cur % 36)

RECURSIVE Base36Digits(_)
Base36Digits(hex) ==
    IF hex = <<>> THEN <<>>
    ELSE LET qr == DivMod36(hex, <<>>, 0)
         IN  Append(Base36Digits(qr[1]), Lower36[qr[2] + 1])

\* Number.prototype.toString(36)
toString36(number) ==
    IF number.nan THEN <<"N", "a", "N">>
    ELSE IF number.hex = <<>> THEN <<"0">>
    ELSE Base36Digits(number.hex)

UpperChar(c) ==
    IF \E d \in 1..36 : Lower36[d] = c
    THEN Upper36[CHOOSE d \in 1..36 : Lower36[d] = c]
    ELSE c

\* String.prototype.toUpperCase()
toUpperCase(s) == [i \in 1..Len(s) |-> UpperChar(s[i])]

\* Faulty variant: no padding.
padStartNone(s) == s

\* String.prototype.padStart(2, '0')
padStart2(s) == IF Len(s) >= 2 THEN s ELSE IF Len(s) = 1 THEN <<"0">> \o s ELSE <<"0", "0">>

generateOrderCode(id, fullYear) ==
    IF id = Undefined THEN TypeError
    ELSE LET yearStr == padStart2(DecimalDigits(fullYear % 100))
             uuidHex == SliceLast(StripHyphens(id), 8)
             number  == parseInt16(uuidHex)
             base36  == toUpperCase(toString36(number))
         IN  yearStr \o <<"-">> \o base36

IdChars    == {"0", "1", "9", "a", "f", "F", "-", "g"}
IdPrefixes == { <<>>,
                <<"0","0","0","0","0","0","0">>,
                <<"f","f","f","f","f","f","f","f">>,
                <<"5","5","0","e","8","4","0","0","-","e","2","9","b","-",
                  "4","1","d","4","-","a","7","1","6","-","4","4","6","6","5","5">> }
IdValues   == {p \o t : p \in IdPrefixes, t \in SeqsUpTo(IdChars, MaxIdTail)}
YearValues == {2005, 2025, 2100}

CodeIdle ==
    /\ orderId = <<>>
    /\ year = 2025
    /\ code = <<>>
    /\ codePc = "idle"

CodeInit ==
    /\ orderId \in IdValues
    /\ year \in YearValues
    /\ code = <<>>
    /\ codePc = "ready"

\* generateOrderCode(order.id), as createQuickOrder calls it.
GenerateCode ==
    /\ codePc = "ready"
    /\ code' = generateOrderCode(orderId, year)
    /\ codePc' = "generated"
    /\ UNCHANGED <<orderId, year>>
    /\ CodeFrame

\* The clock moves on to another year between two calls.
NewYear ==
    /\ codePc = "generated"
    /\ \E y \in YearValues \ {year} : year' = y
    /\ codePc' = "ready"
    /\ UNCHANGED <<orderId, code>>
    /\ CodeFrame

\* ============================================================================
\* Inventory ledger: the materials page of each browser session
\* ============================================================================
MaxStock  == 2      \* the + button is not pressed beyond this on_hand
MaxClicks == 2      \* +/- clicks over all sessions

Sessions  == {"s1", "s2"}
Materials == {"m1", "m2"}

\* on_hand of the materials before the first click.
InitialStock == {0, 1}

NoData == [m \in Materials |-> 0]

\* useEffect(() => { loadMaterials() }, []) and the loadMaterials() of a failed update.
LoadCall(s) ==
    [kind |-> "load", session |-> s, materialId |-> "none", newQuantity |-> 0,
     phase |-> "select", data |-> NoData, writeFailed |-> FALSE, toasts |-> <<>>]

\* Faulty variant of the - button: never disabled, no Math.max.
DecrementClickUnclamped(on_hand) == {on_hand - 1}

\* The - button: disabled while on_hand <= 0, otherwise it requests
\* Math.max(0, on_hand - 1).  The set of quantities a click can request.
DecrementClick(on_hand) ==
    IF on_hand <= 0 THEN {} ELSE {Max(0, on_hand - 1)}

\* The + button requests on_hand + 1.
IncrementClick(on_hand) == on_hand + 1

\* setMaterials(materials.map(...)): only the clicked material changes.
OptimisticUpdate(list, materialId, newQuantity) ==
    [m \in DOMAIN list |-> IF m = materialId THEN newQuantity ELSE list[m]]

\* updateQuantity up to its await: the optimistic update and the request.
UpdateQuantityCall(s, materialId, newQuantity) ==
    /\ display' = [display EXCEPT ![s] = OptimisticUpdate(@, materialId, newQuantity)]
    /\ ops' = Append(ops,
                [kind |-> "update", session |-> s, materialId |-> materialId,
                 newQuantity |-> newQuantity, phase |-> "write", data |-> NoData,
                 writeFailed |-> FALSE, toasts |-> <<>>])
    /\ UNCHANGED dbOnHand

ClicksLeft == Len(ops) < Cardinality(Sessions) + MaxClicks
OpIds      == 1..(Cardinality(Sessions) + MaxClicks)

ClickDecrement(s, m) ==
    /\ ClicksLeft
    /\ m \in DOMAIN display[s]
    /\ \E q \in DecrementClick(display[s][m]) : UpdateQuantityCall(s, m, q)
    /\ LedgerFrame

ClickIncrement(s, m) ==
    /\ ClicksLeft
    /\ m \in DOMAIN display[s]
    /\ display[s][m] < MaxStock
    /\ UpdateQuantityCall(s, m, IncrementClick(display[s][m]))
    /\ LedgerFrame

\* updateQuantity(materialId, newQuantity) called with a number the callers on
\* the page never pass: the function itself has no test of newQuantity.
CallQuantities == {0 - 1}

CallUpdateQuantity(s, m, q) ==
    /\ ClicksLeft
    /\ m \in DOMAIN display[s]
    /\ UpdateQuantityCall(s, m, q)
    /\ LedgerFrame

\* Faulty variant: the write is merged into the stored value as an increment.
WriteOkMerges(i) ==
    /\ i \in DOMAIN ops
    /\ ops[i].kind = "update" /\ ops[i].phase = "write"
    /\ dbOnHand' = [dbOnHand EXCEPT ![ops[i].materialId] = @ + 1]
    /\ ops' = [ops EXCEPT ![i].phase = "done",
                          ![i].toasts = Append(@, "Quantity updated")]
    /\ UNCHANGED display
    /\ LedgerFrame

\* The update reaches the database and succeeds: toast.success.
WriteOk(i) ==
    /\ i \in DOMAIN ops
    /\ ops[i].kind = "update" /\ ops[i].phase = "write"
    /\ dbOnHand' = [dbOnHand EXCEPT ![ops[i].materialId] = ops[i].newQuantity]
    /\ ops' = [ops EXCEPT ![i].phase = "done",
                          ![i].toasts = Append(@, "Quantity updated")]
    /\ UNCHANGED display
    /\ LedgerFrame

\* The update fails: toast.error, then loadMaterials() is started (not awaited).
WriteFail(i) ==
    /\ i \in DOMAIN ops
    /\ ops[i].kind = "update" /\ ops[i].phase = "write"
    /\ ops' = [ops EXCEPT ![i].phase = "select",
                          ![i].writeFailed = TRUE,
                          ![i].toasts = Append(@, "Failed to update quantity")]
    /\ UNCHANGED <<dbOnHand, display>>
    /\ LedgerFrame

\* loadMaterials: the select is answered from the database as it is now.
SelectOk(i) ==
    /\ i \in DOMAIN ops
    /\ ops[i].phase = "select"
    /\ ops' = [ops EXCEPT ![i].phase = "response", ![i].data = dbOnHand]
    /\ UNCHANGED <<dbOnHand, display>>
    /\ LedgerFrame

\* loadMaterials: the select fails; the catch block leaves `materials` as it is.
SelectFail(i) ==
    /\ i \in DOMAIN ops
    /\ ops[i].phase = "select"
    /\ ops' = [ops EXCEPT ![i].phase = "done",
                          ![i].toasts = Append(@, "Failed to load materials")]
    /\ UNCHANGED <<dbOnHand, display>>
    /\ LedgerFrame

\* loadMaterials: setMaterials(data || []).
ApplyLoad(i) ==
    /\ i \in DOMAIN ops
    /\ ops[i].phase = "response"
    /\ display' = [display EXCEPT ![ops[i].session] = ops[i].data]
    /\ ops' = [ops EXCEPT ![i].phase = "done"]
    /\ UNCHANGED dbOnHand
    /\ LedgerFrame

SessionOrder == <<"s1", "s2">>

LedgerIdle ==
    /\ dbOnHand = NoData
    /\ display = [s \in Sessions |-> <<>>]
    /\ ops = <<>>

LedgerInit ==
    /\ dbOnHand \in [Materials -> InitialStock]
    /\ display = [s \in Sessions |-> <<>>]
    /\ ops = [k \in 1..Len(SessionOrder) |-> LoadCall(SessionOrder[k])]

LedgerNext ==
    \/ \E s \in Sessions, m \in Materials : ClickDecrement(s, m)
    \/ \E s \in Sessions, m \in Materials : ClickIncrement(s, m)
    \/ \E i \in OpIds : WriteOk(i)
    \/ \E i \in OpIds : WriteFail(i)
    \/ \E i \in OpIds : SelectOk(i)
    \/ \E i \in OpIds : SelectFail(i)
    \/ \E i \in OpIds : ApplyLoad(i)

\* The materials page with updateQuantity also called directly.
LedgerCallsNext ==
    \/ \E s \in Sessions, m \in Materials : ClickDecrement(s, m)
    \/ \E s \in Sessions, m \in Materials : ClickIncrement(s, m)
    \/ \E s \in Sessions, m \in Materials, q \in CallQuantities : CallUpdateQuantity(s, m, q)
    \/ \E i \in OpIds : WriteOk(i)
    \/ \E i \in OpIds : WriteFail(i)
    \/ \E i \in OpIds : SelectOk(i)
    \/ \E i \in OpIds : SelectFail(i)
    \/ \E i \in OpIds : ApplyLoad(i)

\* ============================================================================
\* CSV import (integrations page) and the orders tables
\* ============================================================================
MaxUploads == 3     \* CSV uploads over all sessions

\* Table products (id, sku, archived).
ProductsTable ==
    { [id |-> "p1", sku |-> "CRT-M", archived |-> FALSE],
      [id |-> "p2", sku |-> "CBT-L", archived |-> FALSE],
      [id |-> "p3", sku |-> "OLD-1", archived |-> TRUE] }

RequiredColumns == {"external_id", "channel", "customer_name", "sku", "qty"}

Row(ext, ch, name, sku, qty) ==
    [external_id |-> ext, channel |-> ch, customer_name |-> name, sku |-> sku, qty |-> qty]

\* The files a user uploads, as Papa.parse returns them: parse errors, the header
\* fields of the first row, and the rows.  A qty cell is kept as its characters.
CsvFiles ==
    [ two_lines  |-> [parseError |-> FALSE, headers |-> RequiredColumns,
                      rows |-> << Row("ORDER1", "SHOPIFY", "Ann", "CRT-M", <<"2">>),
                                  Row("ORDER1", "SHOPIFY", "Ann", "CBT-L", <<"1">>) >>],
      one_line   |-> [parseError |-> FALSE, headers |-> RequiredColumns,
                      rows |-> << Row("ORDER1", "SHOPIFY", "", "CRT-M", <<"1", "0">>) >>],
      two_orders |-> [parseError |-> FALSE, headers |-> RequiredColumns,
                      rows |-> << Row("ORDER1", "SHOPIFY", "Bob", "CRT-M", <<"3">>),
                                  Row("ORDER2", "ETSY", "", "ZZZ", <<"x">>) >>],
      partly     |-> [parseError |-> FALSE, headers |-> RequiredColumns,
                      rows |-> << Row("ORDER3", "SHOPIFY", "", "OLD-1", <<"0">>),
                                  Row("", "SHOPIFY", "Dee", "CRT-M", <<"1">>),
                                  Row("ORDER3", "SHOPIFY", "Cy", "CBT-L", <<"-", "4">>) >>],
      hyphens    |-> [parseError |-> FALSE, headers |-> RequiredColumns,
                      rows |-> << Row("C", "A-B", "Ann", "CRT-M", <<"1">>),
                                  Row("B-C", "A", "Bob", "CBT-L", <<"2">>) >>],
      no_qty     |-> [parseError |-> FALSE, headers |-> RequiredColumns \ {"qty"},
                      rows |-> << Row("ORDER1", "SHOPIFY", "Ann", "CRT-M", <<>>) >>],
      broken     |-> [parseError |-> TRUE, headers |-> RequiredColumns,
                      rows |-> << Row("ORDER1", "SHOPIFY", "Ann", "CRT-M", <<"1">>) >>] ]

FileNames == DOMAIN CsvFiles

IsDigitChar(c) == \E d \in 0..9 : Lower36[d + 1] = c
DigitValue(c)  == CHOOSE d \in 0..9 : Lower36[d + 1] = c

RECURSIVE DigitPrefixValue(_, _)
DigitPrefixValue(s, acc) ==
    IF s = <<>> \/ ~IsDigitChar(Head(s)) THEN acc
    ELSE DigitPrefixValue(Tail(s), acc * 10 + DigitValue(Head(s)))

\* parseInt(s): optional sign, then the longest prefix of decimal digits; NaN
\* when there is none.
parseInt10(s) ==
    LET neg  == s # <<>> /\ Head(s) = "-"
        body == IF s # <<>> /\ Head(s) \in {"-", "+"} THEN Tail(s) ELSE s
    IN  IF body = <<>> \/ ~IsDigitChar(Head(body)) THEN [nan |-> TRUE, value |-> 0]
        ELSE [nan |-> FALSE,
              value |-> IF neg THEN 0 - DigitPrefixValue(body, 0)
                        ELSE DigitPrefixValue(body, 0)]

\* parseInt(row.qty?.toString()) || 1 : NaN and 0 are falsy.
ParseQty(cell) ==
    LET n == parseInt10(cell)
    IN  IF n.nan \/ n.value = 0 THEN 1 ELSE n.value

\* `${row.channel}-${row.external_id}`
OrderKey(row) == row.channel \o "-" \o row.external_id

HasKey(groups, key) == \E j \in DOMAIN groups : groups[j].key = key

\* Faulty variant: a row with an empty cell is grouped like any other.
GroupRowKeepsIncomplete(groups, row) ==
    LET key    == OrderKey(row)
        opened == IF HasKey(groups, key) THEN groups
                  ELSE Append(groups,
                         [key |-> key, channel |-> row.channel,
                          external_id |-> row.external_id,
                          customer_name |-> row.customer_name,
                          lines |-> <<>>])
    IN  [j \in DOMAIN opened |->
           IF opened[j].key = key
           THEN [opened[j] EXCEPT !.lines =
                   Append(@, [sku |-> row.sku, qty |-> ParseQty(row.qty)])]
           ELSE opened[j]]

\* The body of `for (const row of data)`: groupedOrders is kept in insertion order.
GroupRow(groups, row) ==
    IF row.external_id = "" \/ row.channel = "" \/ row.sku = "" THEN groups
    ELSE LET key    == OrderKey(row)
             opened == IF HasKey(groups, key) THEN groups
                       ELSE Append(groups,
                              [key |-> key, channel |-> row.channel,
                               external_id |-> row.external_id,
                               customer_name |-> row.customer_name,
                               lines |-> <<>>])
         IN  [j \in DOMAIN opened |->
                IF opened[j].key = key
                THEN [opened[j] EXCEPT !.lines =
                        Append(@, [sku |-> row.sku, qty |-> ParseQty(row.qty)])]
                ELSE opened[j]]

RECURSIVE GroupRows(_, _, _)
GroupRows(rows, k, groups) ==
    IF k > Len(rows) THEN groups
    ELSE GroupRows(rows, k + 1, GroupRow(groups, rows[k]))

\* Faulty variant: the required columns are not looked for.
MissingColumnsNone(file) == {}

\* requiredColumns.filter(col => !headers.includes(col)), headers = Object.keys(data[0] || {})
MissingColumns(file) ==
    IF file.rows = <<>> THEN RequiredColumns ELSE RequiredColumns \ file.headers

ImpIdle ==
    [pc |-> "idle", file |-> "none", groups |-> <<>>, i |-> 0, products |-> {},
     order |-> 0, orderCode |-> <<>>,
     newOrders |-> <<>>, existingOrders |-> <<>>, errors |-> <<>>,
     success |-> FALSE, toast |-> "none", ioFailed |-> FALSE,
     round |-> 0, prevFile |-> "none", prevIoFailed |-> FALSE]

UploadsLeft == imp["s1"].round + imp["s2"].round < MaxUploads

\* `continue`, or the end of the loop body: the next group, or the return of
\* importOrders followed by setImportResult.
NextGroup(rec) ==
    IF rec.i < Len(rec.groups)
    THEN [rec EXCEPT !.i = @ + 1, !.pc = "lookup", !.products = {}, !.order = 0]
    ELSE [rec EXCEPT !.pc = "done", !.products = {}, !.order = 0,
                     !.success = (rec.errors = <<>>)]

\* handleFileUpload up to the first await of importOrders.
HandleFileUpload(s, f) ==
    /\ imp[s].pc \in {"idle", "done"}
    /\ UploadsLeft
    /\ LET file   == CsvFiles[f]
           start  == [ImpIdle EXCEPT !.file = f, !.round = imp[s].round + 1,
                                     !.prevFile = imp[s].file,
                                     !.prevIoFailed = imp[s].ioFailed]
           groups == GroupRows(file.rows, 1, <<>>)
       IN  imp' = [imp EXCEPT ![s] =
                IF file.parseError
                THEN [start EXCEPT !.toast = "CSV parsing error"]
                ELSE IF MissingColumns(file) # {}
                THEN [start EXCEPT !.toast = "Missing required columns"]
                ELSE IF groups = <<>>
                THEN [start EXCEPT !.pc = "done", !.success = TRUE]
                ELSE [start EXCEPT !.pc = "lookup", !.groups = groups, !.i = 1]]
    /\ UNCHANGED <<orders, orderLines>>
    /\ ImportFrame

Matching(g) ==
    {k \in DOMAIN orders : orders[k].external_id = g.external_id
                           /\ orders[k].channel = g.channel}

\* select('code').eq('external_id', ..).eq('channel', ..).single(): data is the
\* row when exactly one row matches, null otherwise.
LookupExisting(s) ==
    /\ imp[s].pc = "lookup"
    /\ LET rec == imp[s]
           g   == rec.groups[rec.i]
           hit == Matching(g)
       IN  imp' = [imp EXCEPT ![s] =
                IF Cardinality(hit) = 1
                THEN NextGroup([rec EXCEPT !.existingOrders =
                        Append(@, [code |-> orders[CHOOSE k \in hit : TRUE].code,
                                   external_id |-> g.external_id,
                                   channel |-> g.channel])])
                ELSE [rec EXCEPT !.pc = "products"]]
    /\ UNCHANGED <<orders, orderLines>>
    /\ ImportFrame

\* The lookup request fails: data is null and the error is not looked at.
LookupFails(s) ==
    /\ imp[s].pc = "lookup"
    /\ imp' = [imp EXCEPT ![s].pc = "products", ![s].ioFailed = TRUE]
    /\ UNCHANGED <<orders, orderLines>>
    /\ ImportFrame

GroupSkus(g) == {g.lines[j].sku : j \in DOMAIN g.lines}

\* from('products').select('id, sku').in('sku', skus).eq('archived', false)
ResolveProducts(g) == {p \in ProductsTable : p.sku \in GroupSkus(g) /\ ~p.archived}

\* `<message> ${orderData.external_id}`
ErrorFor(message, rec) ==
    [message |-> message, external_id |-> rec.groups[rec.i].external_id]

\* Faulty variant: the group is skipped without an entry in the error list.
NoProductsFoundSilently(rec) == NextGroup(rec)

\* errors.push(`No products found for order ..`); continue
NoProductsFound(rec) ==
    NextGroup([rec EXCEPT !.errors = Append(@, ErrorFor("No products found for order", rec))])

SelectProducts(s) ==
    /\ imp[s].pc = "products"
    /\ LET rec   == imp[s]
           found == ResolveProducts(rec.groups[rec.i])
       IN  imp' = [imp EXCEPT ![s] =
                IF found = {} THEN NoProductsFound(rec)
                ELSE [rec EXCEPT !.pc = "create", !.products = found]]
    /\ UNCHANGED <<orders, orderLines>>
    /\ ImportFrame

\* The products request fails: data is null, handled as "no products".
SelectProductsFails(s) ==
    /\ imp[s].pc = "products"
    /\ imp' = [imp EXCEPT ![s] = NoProductsFound([imp[s] EXCEPT !.ioFailed = TRUE])]
    /\ UNCHANGED <<orders, orderLines>>
    /\ ImportFrame

\* idx_orders_channel_external_id and the UNIQUE constraint of orders.code.
InsertAllowed(row) ==
    /\ \A k \in DOMAIN orders :
          ~(orders[k].channel = row.channel /\ orders[k].external_id = row.external_id
            /\ row.external_id # "")
    /\ \A k \in DOMAIN orders : orders[k].code # row.code

\* orderData.lines.map(...).filter(Boolean)
RECURSIVE ResolvedLines(_, _, _)
ResolvedLines(lines, products, orderRowId) ==
    IF lines = <<>> THEN <<>>
    ELSE LET line == Head(lines)
             rest == ResolvedLines(Tail(lines), products, orderRowId)
         IN  IF \E p \in products : p.sku = line.sku
             THEN << [order_id |-> orderRowId,
                      product_id |-> (CHOOSE p \in products : p.sku = line.sku).id,
                      qty |-> line.qty] >> \o rest
             ELSE rest

\* Faulty variant: the error ends the loop.
CaughtErrorEndsImport(rec) ==
    [rec EXCEPT !.errors = Append(@, ErrorFor("Failed to import order", rec)),
                !.pc = "done", !.products = {}, !.order = 0, !.success = FALSE]

\* catch (error) { errors.push(`Failed to import order ..`) }, then the next group.
CaughtError(rec) ==
    NextGroup([rec EXCEPT !.errors = Append(@, ErrorFor("Failed to import order", rec))])

\* The rest of the try block, from `const orderCode = generateOrderCode()`:
\* the insert of the order, then (after its await) the insert of its lines.
CreateOrder(s) ==
    /\ imp[s].pc \in {"create", "lines"}
    /\ LET rec == imp[s]
           g   == rec.groups[rec.i]
       IN  IF rec.pc = "create"
           THEN LET orderCode == generateOrderCode(Undefined, year)
                    row == [id |-> Len(orders) + 1, code |-> orderCode,
                            channel |-> g.channel, external_id |-> g.external_id,
                            customer_name |-> g.customer_name, status |-> "PENDING",
                            carrier |-> Null, tracking |-> Null]
                IN  IF orderCode = TypeError
                    THEN /\ imp' = [imp EXCEPT ![s] =
                                CaughtError([rec EXCEPT !.orderCode = orderCode])]
                         /\ UNCHANGED <<orders, orderLines>>
                    ELSE \E ok \in IF InsertAllowed(row) THEN {TRUE, FALSE} ELSE {FALSE} :
                           IF ok
                           THEN /\ orders' = Append(orders, row)
                                /\ imp' = [imp EXCEPT ![s] =
                                       [rec EXCEPT !.pc = "lines", !.order = row.id,
                                                   !.orderCode = orderCode]]
                                /\ UNCHANGED orderLines
                           ELSE /\ imp' = [imp EXCEPT ![s] =
                                       CaughtError([rec EXCEPT
                                           !.orderCode = orderCode,
                                           !.ioFailed = @ \/ InsertAllowed(row)])]
                                /\ UNCHANGED <<orders, orderLines>>
           ELSE LET new == ResolvedLines(g.lines, rec.products, rec.order)
                    reported == NextGroup([rec EXCEPT !.newOrders =
                                   Append(@, [code |-> rec.orderCode,
                                              external_id |-> g.external_id,
                                              channel |-> g.channel])])
                IN  IF new = <<>>
                    THEN /\ imp' = [imp EXCEPT ![s] = reported]
                         /\ UNCHANGED <<orders, orderLines>>
                    ELSE \E ok \in BOOLEAN :
                           IF ok
                           THEN /\ orderLines' = orderLines \o new
                                /\ imp' = [imp EXCEPT ![s] = reported]
                                /\ UNCHANGED orders
                           ELSE /\ imp' = [imp EXCEPT ![s] =
                                       CaughtError([rec EXCEPT !.ioFailed = TRUE])]
                                /\ UNCHANGED <<orders, orderLines>>
    /\ ImportFrame

ImportIdle ==
    /\ orders = <<>>
    /\ orderLines = <<>>
    /\ imp = [s \in Sessions |-> ImpIdle]

ImportNext ==
    \/ \E s \in Sessions, f \in FileNames : HandleFileUpload(s, f)
    \/ \E s \in Sessions : LookupExisting(s)
    \/ \E s \in Sessions : LookupFails(s)
    \/ \E s \in Sessions : SelectProducts(s)
    \/ \E s \in Sessions : SelectProductsFails(s)
    \/ \E s \in Sessions : CreateOrder(s)

\* ============================================================================
\* Order status: the order detail page and the fulfillment page of each session
\* ============================================================================
MaxStatusCalls == 2     \* updateOrderStatus calls over all sessions and pages

\* An argument that is not passed (carrier?: string).
NotPassed == "undefined"

\* Orders as createQuickOrder leaves them: status PENDING, no carrier, no tracking.
InitialOrders ==
    << [id |-> 1, code |-> generateOrderCode(<<"a", "1">>, 2025), channel |-> "MANUAL",
        external_id |-> Null, customer_name |-> "Ann", status |-> "PENDING",
        carrier |-> Null, tracking |-> Null],
       [id |-> 2, code |-> generateOrderCode(<<"b", "2">>, 2025), channel |-> "MANUAL",
        external_id |-> Null, customer_name |-> "Bob", status |-> "PENDING",
        carrier |-> Null, tracking |-> Null] >>

\* useState<OrderWithLines | null>(null): the null order, as a row of no table.
NullOrder ==
    [id |-> 0, code |-> <<>>, channel |-> Null, external_id |-> Null,
     customer_name |-> Null, status |-> Null, carrier |-> Null, tracking |-> Null]

\* The order whose detail page is opened.
OpenedOrder == InitialOrders[1].id

OrderIds == {InitialOrders[k].id : k \in DOMAIN InitialOrders}

\* What a user types into the Carrier and Tracking Number inputs.
ShippingInputs == { <<"UPS", "1Z999">> }

\* The arguments the fulfillment page's updateOrderStatus is called with.
ListCalls == { <<"IN_PROGRESS", NotPassed, NotPassed>>, <<"SHIPPED", "UPS", "">> }

\* const updateData = { status }; carrier and tracking only when passed.
UpdateData(status, newCarrier, newTracking) ==
    [k \in {"status"} \cup (IF newCarrier # NotPassed THEN {"carrier"} ELSE {})
                      \cup (IF newTracking # NotPassed THEN {"tracking"} ELSE {}) |->
        CASE k = "status"  -> status
          [] k = "carrier" -> newCarrier
          [] OTHER         -> newTracking]

\* { ...prev, ...updateData }
Spread(prev, updateData) ==
    [k \in DOMAIN prev |-> IF k \in DOMAIN updateData THEN updateData[k] ELSE prev[k]]

\* A row update that sets the status and leaves the other columns for later.
ApplyUpdateStatusOnly(table, id, updateData) ==
    [k \in DOMAIN table |->
        IF table[k].id = id THEN [table[k] EXCEPT !.status = updateData.status]
        ELSE table[k]]

\* from('orders').update(updateData).eq('id', id): one UPDATE statement.
ApplyUpdate(table, id, updateData) ==
    [k \in DOMAIN table |->
        IF table[k].id = id THEN Spread(table[k], updateData) ELSE table[k]]

\* a || b for strings and null.
OrElse(a, b) == IF a \in {Null, NotPassed, ""} THEN b ELSE a

\* The fulfillment page's copy after a successful update:
\* { ...order, status, carrier: carrier || order.carrier, tracking: tracking || order.tracking }
ListCopy(order, status, carrier, tracking) ==
    [order EXCEPT !.status = status,
                  !.carrier = OrElse(carrier, order.carrier),
                  !.tracking = OrElse(tracking, order.tracking)]

\* setOrders(prev => prev.map(...))
ListSetOrders(prev, id, status, carrier, tracking) ==
    [k \in DOMAIN prev |->
        IF prev[k].id = id THEN ListCopy(prev[k], status, carrier, tracking) ELSE prev[k]]

\* A catch block that applies the change to the displayed order all the same.
DetailCatchApplies(view, updateData) ==
    [view EXCEPT !.order = IF @ = NullOrder THEN NullOrder ELSE Spread(@, updateData),
                 !.toast = "Failed to update order"]

\* catch (error) { toast.error('Failed to update order') } of the detail page.
DetailCatch(view, updateData) ==
    [view EXCEPT !.toast = "Failed to update order"]

\* setOrder(data) followed by the effect on [order]: the inputs are reset.
SetOrder(view, data) ==
    [view EXCEPT !.order = data,
                 !.carrier = IF data = NullOrder THEN @ ELSE OrElse(data.carrier, ""),
                 !.tracking = IF data = NullOrder THEN @ ELSE OrElse(data.tracking, "")]

\* The try block of the detail page after the await:
\* setOrder(prev => prev ? { ...prev, ...updateData } : null); toast.success(..)
DetailApplied(view, updateData) ==
    [SetOrder(view, IF view.order = NullOrder THEN NullOrder
                    ELSE Spread(view.order, updateData))
        EXCEPT !.toast = "Order updated successfully"]

canMarkShipped(view) ==
    view.order # NullOrder /\ view.order.status \in {"PENDING", "IN_PROGRESS"}

canSetInProgress(view) ==
    view.order # NullOrder /\ view.order.status = "PENDING"

DetailIdle == [order |-> NullOrder, carrier |-> "", tracking |-> "", toast |-> "none"]
ListIdle   == [orders |-> <<>>, toast |-> "none"]

\* loadOrder(params.id) of the detail page, loadData() of the fulfillment page,
\* up to the await.
LoadOrderCall(id) ==
    [kind |-> "loadOrder", orderId |-> id, args |-> <<"none", NotPassed, NotPassed>>,
     updateData |-> UpdateData("none", NotPassed, NotPassed),
     phase |-> "request", error |-> FALSE, data |-> <<>>]

LoadDataCall == [LoadOrderCall(0) EXCEPT !.kind = "loadData"]

\* updateOrderStatus of the detail page ("detail") or of the fulfillment page
\* ("list"), up to its await.
UpdateOrderStatusCall(page, id, status, newCarrier, newTracking) ==
    [kind |-> page, orderId |-> id, args |-> <<status, newCarrier, newTracking>>,
     updateData |-> UpdateData(status, newCarrier, newTracking),
     phase |-> "request", error |-> FALSE, data |-> <<>>]

\* The calls a session can have in flight at once.
StatusOpIds == 1..(MaxStatusCalls + 1)

IsUpdate(op) == op.kind \in {"detail", "list"}
IsLoad(op)   == op.kind \in {"loadOrder", "loadData"}

RowsWithId(table, id) == {k \in DOMAIN table : table[k].id = id}

\* A call has returned: it leaves the calls in flight.
Returned(calls, i) == [k \in 1..(Len(calls) - 1) |-> IF k < i THEN calls[k] ELSE calls[k + 1]]

\* onChange of the Carrier and Tracking Number inputs.
TypeShipping(s, input) ==
    /\ detail[s].order # NullOrder
    /\ <<detail[s].carrier, detail[s].tracking>> # input
    /\ statusCalls < MaxStatusCalls
    /\ detail' = [detail EXCEPT ![s].carrier = input[1], ![s].tracking = input[2]]
    /\ UNCHANGED <<orders, fulfillment, statusOps, statusCalls>>
    /\ StatusFrame

\* handleMarkShipped: the button is rendered only while canMarkShipped.
ClickMarkShipped(s) ==
    /\ canMarkShipped(detail[s])
    /\ statusCalls < MaxStatusCalls
    /\ statusOps' = [statusOps EXCEPT ![s] = Append(@,
          UpdateOrderStatusCall("detail", detail[s].order.id, "SHIPPED",
                                detail[s].carrier, detail[s].tracking))]
    /\ statusCalls' = statusCalls + 1
    /\ UNCHANGED <<orders, detail, fulfillment>>
    /\ StatusFrame

\* handleSetInProgress: the button is rendered only while canSetInProgress.
ClickSetInProgress(s) ==
    /\ canSetInProgress(detail[s])
    /\ statusCalls < MaxStatusCalls
    /\ statusOps' = [statusOps EXCEPT ![s] = Append(@,
          UpdateOrderStatusCall("detail", detail[s].order.id, "IN_PROGRESS",
                                NotPassed, NotPassed))]
    /\ statusCalls' = statusCalls + 1
    /\ UNCHANGED <<orders, detail, fulfillment>>
    /\ StatusFrame

\* A call of the fulfillment page's updateOrderStatus for an order of its list.
ListUpdateOrderStatus(s, id, status, input) ==
    /\ \E k \in DOMAIN fulfillment[s].orders : fulfillment[s].orders[k].id = id
    /\ statusCalls < MaxStatusCalls
    /\ statusOps' = [statusOps EXCEPT ![s] = Append(@,
          UpdateOrderStatusCall("list", id, status, input[1], input[2]))]
    /\ statusCalls' = statusCalls + 1
    /\ UNCHANGED <<orders, detail, fulfillment>>
    /\ StatusFrame

\* Faulty variant: the update of an order takes one piece of every material
\* from stock.
StatusWriteOkTakesStock(s, i) ==
    /\ i \in DOMAIN statusOps[s]
    /\ IsUpdate(statusOps[s][i])
    /\ statusOps[s][i].phase = "request"
    /\ orders' = ApplyUpdate(orders, statusOps[s][i].orderId, statusOps[s][i].updateData)
    /\ statusOps' = [statusOps EXCEPT ![s][i].phase = "response"]
    /\ dbOnHand' = [m \in DOMAIN dbOnHand |-> Max(0, dbOnHand[m] - 1)]
    /\ UNCHANGED <<detail, fulfillment, statusCalls>>
    /\ UNCHANGED <<calcVars, codeVars, display, ops, orderLines, imp, catalogVars, quickVars>>

\* The UPDATE runs in the database.
StatusWriteOk(s, i) ==
    /\ i \in DOMAIN statusOps[s]
    /\ IsUpdate(statusOps[s][i])
    /\ statusOps[s][i].phase = "request"
    /\ orders' = ApplyUpdate(orders, statusOps[s][i].orderId, statusOps[s][i].updateData)
    /\ statusOps' = [statusOps EXCEPT ![s][i].phase = "response"]
    /\ UNCHANGED <<detail, fulfillment, statusCalls>>
    /\ StatusFrame

\* The UPDATE fails: { error } is set and nothing is written.
StatusWriteFail(s, i) ==
    /\ i \in DOMAIN statusOps[s]
    /\ IsUpdate(statusOps[s][i])
    /\ statusOps[s][i].phase = "request"
    /\ statusOps' = [statusOps EXCEPT ![s][i].phase = "response", ![s][i].error = TRUE]
    /\ UNCHANGED <<orders, detail, fulfillment, statusCalls>>
    /\ StatusFrame

\* The catch block of the fulfillment page's updateOrderStatus.
ListCatch(view) == [view EXCEPT !.toast = "Failed to update order status"]

\* The try block of the fulfillment page's updateOrderStatus after the await.
ListApplied(view, op) ==
    [orders |-> ListSetOrders(view.orders, op.orderId, op.args[1], op.args[2], op.args[3]),
     toast  |-> "Order marked as"]

\* updateOrderStatus after its await, on either page.
StatusReturn(s, i) ==
    /\ i \in DOMAIN statusOps[s]
    /\ IsUpdate(statusOps[s][i])
    /\ statusOps[s][i].phase = "response"
    /\ LET op == statusOps[s][i]
       IN  IF op.kind = "detail"
           THEN /\ detail' = [detail EXCEPT ![s] =
                       IF op.error THEN DetailCatch(detail[s], op.updateData)
                       ELSE DetailApplied(detail[s], op.updateData)]
                /\ UNCHANGED fulfillment
           ELSE /\ fulfillment' = [fulfillment EXCEPT ![s] =
                       IF op.error THEN ListCatch(fulfillment[s])
                       ELSE ListApplied(fulfillment[s], op)]
                /\ UNCHANGED detail
    /\ statusOps' = [statusOps EXCEPT ![s] = Returned(@, i)]
    /\ UNCHANGED <<orders, statusCalls>>
    /\ StatusFrame

\* The select of loadOrder (.eq('id', orderId).single()) or of loadData runs.
StatusSelectOk(s, i) ==
    /\ i \in DOMAIN statusOps[s]
    /\ IsLoad(statusOps[s][i])
    /\ statusOps[s][i].phase = "request"
    /\ LET op  == statusOps[s][i]
           hit == RowsWithId(orders, op.orderId)
       IN  statusOps' = [statusOps EXCEPT ![s][i] =
              IF op.kind = "loadData"
              THEN [op EXCEPT !.phase = "response", !.data = orders]
              ELSE IF Cardinality(hit) = 1
              THEN [op EXCEPT !.phase = "response",
                              !.data = <<orders[CHOOSE k \in hit : TRUE]>>]
              ELSE [op EXCEPT !.phase = "response", !.error = TRUE]]
    /\ UNCHANGED <<orders, detail, fulfillment, statusCalls>>
    /\ StatusFrame

StatusSelectFail(s, i) ==
    /\ i \in DOMAIN statusOps[s]
    /\ IsLoad(statusOps[s][i])
    /\ statusOps[s][i].phase = "request"
    /\ statusOps' = [statusOps EXCEPT ![s][i].phase = "response", ![s][i].error = TRUE]
    /\ UNCHANGED <<orders, detail, fulfillment, statusCalls>>
    /\ StatusFrame

\* loadOrder / loadData after the await: setOrder(data) / setOrders(ordersData || []),
\* or the toast of the catch block.
StatusLoaded(s, i) ==
    /\ i \in DOMAIN statusOps[s]
    /\ IsLoad(statusOps[s][i])
    /\ statusOps[s][i].phase = "response"
    /\ LET op == statusOps[s][i]
       IN  IF op.kind = "loadOrder"
           THEN /\ detail' = [detail EXCEPT ![s] =
                       IF op.error THEN [detail[s] EXCEPT !.toast = "Failed to load order"]
                       ELSE SetOrder(detail[s], op.data[1])]
                /\ UNCHANGED fulfillment
           ELSE /\ fulfillment' = [fulfillment EXCEPT ![s] =
                       IF op.error
                       THEN [fulfillment[s] EXCEPT !.toast = "Failed to load orders"]
                       ELSE [fulfillment[s] EXCEPT !.orders = op.data]]
                /\ UNCHANGED detail
    /\ statusOps' = [statusOps EXCEPT ![s] = Returned(@, i)]
    /\ UNCHANGED <<orders, statusCalls>>
    /\ StatusFrame

StatusIdle ==
    /\ detail = [s \in Sessions |-> DetailIdle]
    /\ fulfillment = [s \in Sessions |-> ListIdle]
    /\ statusOps = [s \in Sessions |-> <<>>]
    /\ statusCalls = 0

\* Session s1 has opened the detail page of an order, session s2 that page or the
\* fulfillment page: the load of the page is in flight.
StatusInit ==
    /\ orders = InitialOrders
    /\ orderLines = <<>>
    /\ imp = [s \in Sessions |-> ImpIdle]
    /\ detail = [s \in Sessions |-> DetailIdle]
    /\ fulfillment = [s \in Sessions |-> ListIdle]
    /\ \E opened \in {<<LoadDataCall>>, <<LoadOrderCall(OpenedOrder)>>} :
          statusOps = [s \in Sessions |->
                          IF s = "s1" THEN <<LoadOrderCall(OpenedOrder)>> ELSE opened]
    /\ statusCalls = 0

StatusNext ==
    \/ \E s \in Sessions, input \in ShippingInputs : TypeShipping(s, input)
    \/ \E s \in Sessions : ClickMarkShipped(s)
    \/ \E s \in Sessions : ClickSetInProgress(s)
    \/ \E s \in Sessions, id \in OrderIds, call \in ListCalls :
             ListUpdateOrderStatus(s, id, call[1], <<call[2], call[3]>>)
    \/ \E s \in Sessions, i \in StatusOpIds : StatusWriteOk(s, i)
    \/ \E s \in Sessions, i \in StatusOpIds : StatusWriteFail(s, i)
    \/ \E s \in Sessions, i \in StatusOpIds : StatusReturn(s, i)
    \/ \E s \in Sessions, i \in StatusOpIds : StatusSelectOk(s, i)
    \/ \E s \in Sessions, i \in StatusOpIds : StatusSelectFail(s, i)
    \/ \E s \in Sessions, i \in StatusOpIds : StatusLoaded(s, i)

\* ============================================================================
\* SKUs: addMaterial (materials page), addProduct and updateProduct (products page)
\* ============================================================================
\* The rows of the schema's sample data, and the SKUs typed into the dialogs.
SampleMaterials == << [id |-> 1, sku |-> "GT-RED-M"] >>
SampleProducts  == << [id |-> 1, sku |-> "CRT-M"] >>
MaterialSkus == {"GT-RED-M", "GT-BLUE-S"}
ProductSkus  == {"CRT-M", "CBT-L"}

\* sku TEXT UNIQUE NOT NULL: the rows other than `id` that hold the SKU.
SkuTaken(table, sku, id) == \E k \in DOMAIN table : table[k].sku = sku /\ table[k].id # id

\* The { error } of an insert or update: none, the unique violation 23505 when
\* the SKU is taken, or any other failure.
RequestErrors(table, sku, id) ==
    IF SkuTaken(table, sku, id) THEN {"23505", "other"} ELSE {"none", "other"}

\* addMaterial: catch (error) { toast.error('Failed to add material') }
addMaterialCatch(error) == "Failed to add material"

\* addProduct: error.code === '23505' ? 'SKU already exists' : 'Failed to add product'
addProductCatch(error) ==
    IF error = "23505" THEN "SKU already exists" ELSE "Failed to add product"

\* updateProduct: error.code === '23505' ? 'SKU already exists' : 'Failed to update product'
updateProductCatch(error) ==
    IF error = "23505" THEN "SKU already exists" ELSE "Failed to update product"

\* The row an insert returns (.select().single()).
Inserted(table, sku) == [id |-> Len(table) + 1, sku |-> sku]

\* update(productData).eq('id', id)
UpdatedSku(table, id, sku) ==
    [k \in DOMAIN table |-> IF table[k].id = id THEN [table[k] EXCEPT !.sku = sku] ELSE table[k]]

CatalogViewIdle ==
    [materials |-> <<>>, products |-> <<>>, editingProduct |-> 0,
     toast |-> "none", error |-> "none"]

\* addMaterial(materialData), with the request and the code after its await.
AddMaterial(s, sku) ==
    /\ \E error \in RequestErrors(catalogDb.materials, sku, 0) :
          IF error = "none"
          THEN LET data == Inserted(catalogDb.materials, sku)
               IN  /\ catalogDb' = [catalogDb EXCEPT !.materials = Append(@, data)]
                   /\ catalog' = [catalog EXCEPT ![s].materials = <<data>> \o @,
                                                 ![s].toast = "Material added successfully",
                                                 ![s].error = error]
          ELSE /\ catalog' = [catalog EXCEPT ![s].toast = addMaterialCatch(error),
                                             ![s].error = error]
               /\ UNCHANGED catalogDb
    /\ CatalogFrame

\* addProduct(productData), with the request and the code after its await.
AddProduct(s, sku) ==
    /\ \E error \in RequestErrors(catalogDb.products, sku, 0) :
          IF error = "none"
          THEN LET data == Inserted(catalogDb.products, sku)
               IN  /\ catalogDb' = [catalogDb EXCEPT !.products = Append(@, data)]
                   /\ catalog' = [catalog EXCEPT ![s].products = <<data>> \o @,
                                                 ![s].toast = "Product added successfully",
                                                 ![s].error = error]
          ELSE /\ catalog' = [catalog EXCEPT ![s].toast = addProductCatch(error),
                                             ![s].error = error]
               /\ UNCHANGED catalogDb
    /\ CatalogFrame

\* onClick={() => setEditingProduct(product)} on a row of the list.
EditProduct(s, k) ==
    /\ k \in DOMAIN catalog[s].products
    /\ catalog[s].editingProduct # catalog[s].products[k].id
    /\ catalog' = [catalog EXCEPT ![s].editingProduct = catalog[s].products[k].id,
                                  ![s].toast = "none", ![s].error = "none"]
    /\ UNCHANGED catalogDb
    /\ CatalogFrame

\* updateProduct(productData), with the request and the code after its await.
UpdateProduct(s, sku) ==
    /\ catalog[s].editingProduct # 0
    /\ LET id == catalog[s].editingProduct
       IN  \E error \in RequestErrors(catalogDb.products, sku, id) :
              IF error = "none"
              THEN /\ catalogDb' = [catalogDb EXCEPT !.products = UpdatedSku(@, id, sku)]
                   /\ catalog' = [catalog EXCEPT ![s].products = UpdatedSku(@, id, sku),
                                                 ![s].editingProduct = 0,
                                                 ![s].toast = "Product updated successfully",
                                                 ![s].error = error]
              ELSE /\ catalog' = [catalog EXCEPT ![s].toast = updateProductCatch(error),
                                                 ![s].error = error]
                   /\ UNCHANGED catalogDb
    /\ CatalogFrame

CatalogIdle ==
    /\ catalogDb = [materials |-> <<>>, products |-> <<>>]
    /\ catalog = [s \in Sessions |-> CatalogViewIdle]

\* The pages of both sessions have loaded the sample data.
CatalogInit ==
    /\ catalogDb = [materials |-> SampleMaterials, products |-> SampleProducts]
    /\ catalog = [s \in Sessions |->
          [CatalogViewIdle EXCEPT !.materials = SampleMaterials, !.products = SampleProducts]]

CatalogNext ==
    \/ \E s \in Sessions, sku \in MaterialSkus : AddMaterial(s, sku)
    \/ \E s \in Sessions, sku \in ProductSkus : AddProduct(s, sku)
    \/ \E s \in Sessions, k \in 1..Cardinality(ProductSkus) : EditProduct(s, k)
    \/ \E s \in Sessions, sku \in ProductSkus : UpdateProduct(s, sku)

\* ============================================================================
\* Manual order creation: QuickOrderDialog and createQuickOrder (fulfillment page)
\* ============================================================================
MaxQuickOrders == 2     \* submits of the quick order dialog over all sessions

\* code IS NULL, for a column whose values are sequences of characters.
NoCode == <<>>

\* The identifier uuid_generate_v4() gives to the row with a row id: the third
\* identifier ends in the hexadecimal digits of the first.
OrderUuids  == << <<"a", "1">>, <<"b", "2">>, <<"0", "a", "1">>, <<"c", "3">> >>
OrderRowIds == DOMAIN OrderUuids

\* What a user has typed into the dialog when pressing the submit button.
QuickForms ==
    { [customerName |-> "Ann",   lines |-> << [product_id |-> "p1", qty |-> 1] >>],
      [customerName |-> " Bob ", lines |-> << [product_id |-> "p1", qty |-> 2],
                                              [product_id |-> "",   qty |-> 1] >>],
      [customerName |-> " ",     lines |-> << [product_id |-> "p2", qty |-> 1] >>],
      [customerName |-> "Cy",    lines |-> << [product_id |-> "",   qty |-> 1] >>] }

\* String.prototype.trim on the names above.
Trim(str) == CASE str = " Bob " -> "Bob" [] str = " " -> "" [] OTHER -> str

\* lines.filter(line => line.product_id && line.qty > 0)
RECURSIVE ValidLines(_)
ValidLines(lines) ==
    IF lines = <<>> THEN <<>>
    ELSE IF Head(lines).product_id # "" /\ Head(lines).qty > 0
         THEN <<Head(lines)>> \o ValidLines(Tail(lines))
         ELSE ValidLines(Tail(lines))

QuickIdleView ==
    [open |-> FALSE, pc |-> "idle", customer_name |-> "", lines |-> <<>>,
     order |-> 0, code |-> NoCode, toast |-> "none", calls |-> 0]

QuickCalls == quick["s1"].calls + quick["s2"].calls

\* The Add New button (DialogTrigger): setIsAddDialogOpen(true).
OpenQuickDialog(s) ==
    /\ ~quick[s].open
    /\ QuickCalls < MaxQuickOrders
    /\ quick' = [quick EXCEPT ![s].open = TRUE]
    /\ UNCHANGED <<orders, orderLines, statusOps>>
    /\ QuickFrame

\* handleSubmit of the dialog, and createQuickOrder up to its first await.
SubmitQuickOrder(s, form) ==
    /\ quick[s].open
    /\ quick[s].pc = "idle"
    /\ QuickCalls < MaxQuickOrders
    /\ LET counted == [quick[s] EXCEPT !.calls = @ + 1]
       IN  quick' = [quick EXCEPT ![s] =
              IF Trim(form.customerName) = ""
              THEN [counted EXCEPT !.toast = "Customer name is required"]
              ELSE IF ValidLines(form.lines) = <<>>
              THEN [counted EXCEPT !.toast = "At least one product is required"]
              ELSE [counted EXCEPT !.pc = "insert", !.toast = "none",
                                   !.customer_name = Trim(form.customerName),
                                   !.lines = ValidLines(form.lines),
                                   !.order = 0, !.code = NoCode]]
    /\ UNCHANGED <<orders, orderLines, statusOps>>
    /\ QuickFrame

\* catch (error) { toast.error('Failed to create order') }
QuickCatch(view) == [view EXCEPT !.pc = "idle", !.toast = "Failed to create order"]

\* insert([{ customer_name, channel: 'MANUAL' }]).select().single(): the row gets
\* the defaults of the table, its code is NULL.
QuickOrderRow(id, customer_name) ==
    [id |-> id, code |-> NoCode, channel |-> "MANUAL", external_id |-> Null,
     customer_name |-> customer_name, status |-> "PENDING",
     carrier |-> Null, tracking |-> Null]

FreeRowIds == {id \in OrderRowIds : \A k \in DOMAIN orders : orders[k].id # id}

\* The first write: the insert of the order, or its failure.
QuickInsertOrder(s) ==
    /\ quick[s].pc = "insert"
    /\ \/ /\ \E id \in FreeRowIds :
                /\ orders' = Append(orders, QuickOrderRow(id, quick[s].customer_name))
                /\ quick' = [quick EXCEPT ![s].pc = "code", ![s].order = id]
          /\ UNCHANGED <<orderLines, statusOps>>
       \/ /\ quick' = [quick EXCEPT ![s] = QuickCatch(@)]
          /\ UNCHANGED <<orders, orderLines, statusOps>>
    /\ QuickFrame

\* code TEXT UNIQUE: no other row holds the code.
CodeFree(table, c, id) == \A k \in DOMAIN table : table[k].id = id \/ table[k].code # c

\* update({ code }).eq('id', order.id)
CodeAssigned(table, id, c) ==
    [k \in DOMAIN table |-> IF table[k].id = id THEN [table[k] EXCEPT !.code = c] ELSE table[k]]

\* The second write: generateOrderCode(order.id) and the update of the code, or
\* its failure (a code that is taken, or the request).
QuickUpdateCode(s) ==
    /\ quick[s].pc = "code"
    /\ LET c == generateOrderCode(OrderUuids[quick[s].order], year)
       IN  \/ /\ CodeFree(orders, c, quick[s].order)
              /\ orders' = CodeAssigned(orders, quick[s].order, c)
              /\ quick' = [quick EXCEPT ![s].pc = "lines", ![s].code = c]
              /\ UNCHANGED <<orderLines, statusOps>>
           \/ /\ quick' = [quick EXCEPT ![s] = QuickCatch([@ EXCEPT !.code = c])]
              /\ UNCHANGED <<orders, orderLines, statusOps>>
    /\ QuickFrame

\* orderData.lines.map(line => ({ order_id: order.id, ... }))
QuickLines(lines, id) ==
    [l \in DOMAIN lines |->
        [order_id |-> id, product_id |-> lines[l].product_id, qty |-> lines[l].qty]]

\* The third write: the insert of the lines; then the toast, the dialog is
\* closed and loadData() is started.  Or the failure of the insert.
QuickInsertLines(s) ==
    /\ quick[s].pc = "lines"
    /\ \/ /\ orderLines' = orderLines \o QuickLines(quick[s].lines, quick[s].order)
          /\ quick' = [quick EXCEPT ![s].pc = "idle", ![s].open = FALSE,
                                    ![s].toast = "Order created successfully"]
          /\ statusOps' = [statusOps EXCEPT ![s] = Append(@, LoadDataCall)]
          /\ UNCHANGED orders
       \/ /\ quick' = [quick EXCEPT ![s] = QuickCatch(@)]
          /\ UNCHANGED <<orders, orderLines, statusOps>>
    /\ QuickFrame

QuickIdle == quick = [s \in Sessions |-> QuickIdleView]

\* Both sessions are on the fulfillment page of a shop without orders: the
\* loadData() of the page has returned the empty list.
QuickInit ==
    /\ orders = <<>>
    /\ orderLines = <<>>
    /\ imp = [s \in Sessions |-> ImpIdle]
    /\ StatusIdle
    /\ QuickIdle

QuickNext ==
    \/ \E s \in Sessions : OpenQuickDialog(s)
    \/ \E s \in Sessions, form \in QuickForms : SubmitQuickOrder(s, form)
    \/ \E s \in Sessions : QuickInsertOrder(s)
    \/ \E s \in Sessions : QuickUpdateCode(s)
    \/ \E s \in Sessions : QuickInsertLines(s)
    \/ \E s \in Sessions, i \in StatusOpIds : StatusSelectOk(s, i)
    \/ \E s \in Sessions, i \in StatusOpIds : StatusSelectFail(s, i)
    \/ \E s \in Sessions, i \in StatusOpIds : StatusLoaded(s, i)

\* ============================================================================
\* The shop: the materials page in one session, the order pages in the other
\* ============================================================================
MaxShopOps == 2     \* clicks, uploads and submits over all pages

StockSession == "s1"
OrderSession == "s2"

\* The file uploaded and the dialog input submitted in the shop.
ShopFiles == {"two_orders"}
ShopForms == {form \in QuickForms : form.customerName = "Ann"}

\* The material whose buttons are clicked in the shop.
ShopMaterials == {"m1"}

\* The clicks, uploads, status changes and submits made so far.
ShopOps ==
    Cardinality({i \in DOMAIN ops : ops[i].kind = "update"})
    + imp[OrderSession].round + statusCalls + QuickCalls

ShopOpsLeft == ShopOps < MaxShopOps

ShopClickDecrement(m) == ShopOpsLeft /\ ClickDecrement(StockSession, m)
ShopClickIncrement(m) == ShopOpsLeft /\ ClickIncrement(StockSession, m)
ShopUpload(f)         == ShopOpsLeft /\ HandleFileUpload(OrderSession, f)
ShopMarkShipped       == ShopOpsLeft /\ ClickMarkShipped(OrderSession)
ShopSetInProgress     == ShopOpsLeft /\ ClickSetInProgress(OrderSession)
ShopSubmit(form)      == ShopOpsLeft /\ SubmitQuickOrder(OrderSession, form)

\* The materials have stock, the orders of InitialOrders exist; the stock
\* session is on the materials page, the order session on the detail page of an
\* order: the loads of both pages have returned.
ShopInit ==
    /\ dbOnHand = [m \in Materials |-> 1]
    /\ display = [s \in Sessions |-> IF s = StockSession THEN dbOnHand ELSE <<>>]
    /\ ops = <<>>
    /\ orders = InitialOrders
    /\ orderLines = <<>>
    /\ imp = [s \in Sessions |-> ImpIdle]
    /\ detail = [s \in Sessions |->
                    IF s = OrderSession
                    THEN SetOrder(DetailIdle, InitialOrders[OpenedOrder])
                    ELSE DetailIdle]
    /\ fulfillment = [s \in Sessions |-> ListIdle]
    /\ statusOps = [s \in Sessions |-> <<>>]
    /\ statusCalls = 0
    /\ quick = [s \in Sessions |-> QuickIdleView]

ShopNext ==
    \/ \E m \in ShopMaterials : ShopClickDecrement(m)
    \/ \E m \in ShopMaterials : ShopClickIncrement(m)
    \/ \E i \in OpIds : WriteOk(i)
    \/ \E i \in OpIds : WriteFail(i)
    \/ \E i \in OpIds : SelectOk(i)
    \/ \E i \in OpIds : SelectFail(i)
    \/ \E i \in OpIds : ApplyLoad(i)
    \/ \E f \in ShopFiles : ShopUpload(f)
    \/ LookupExisting(OrderSession)
    \/ LookupFails(OrderSession)
    \/ SelectProducts(OrderSession)
    \/ SelectProductsFails(OrderSession)
    \/ CreateOrder(OrderSession)
    \/ \E input \in ShippingInputs : TypeShipping(OrderSession, input)
    \/ ShopMarkShipped
    \/ ShopSetInProgress
    \/ \E i \in StatusOpIds : StatusWriteOk(OrderSession, i)
    \/ \E i \in StatusOpIds : StatusWriteFail(OrderSession, i)
    \/ \E i \in StatusOpIds : StatusReturn(OrderSession, i)
    \/ \E i \in StatusOpIds : StatusSelectOk(OrderSession, i)
    \/ \E i \in StatusOpIds : StatusSelectFail(OrderSession, i)
    \/ \E i \in StatusOpIds : StatusLoaded(OrderSession, i)
    \/ OpenQuickDialog(OrderSession)
    \/ \E form \in ShopForms : ShopSubmit(form)
    \/ QuickInsertOrder(OrderSession)
    \/ QuickUpdateCode(OrderSession)
    \/ QuickInsertLines(OrderSession)

\* ============================================================================
\* Specifications
\* ============================================================================
InitSellable == CalcInit /\ CodeIdle /\ LedgerIdle /\ ImportIdle /\ StatusIdle /\ CatalogIdle /\ QuickIdle
NextSellable == Calculate \/ Render
SpecSellable == InitSellable /\ [][NextSellable]_vars

InitCode == CalcIdle /\ CodeInit /\ LedgerIdle /\ ImportIdle /\ StatusIdle /\ CatalogIdle /\ QuickIdle
NextCode == GenerateCode \/ NewYear
SpecCode == InitCode /\ [][NextCode]_vars

InitLedger == CalcIdle /\ CodeIdle /\ LedgerInit /\ ImportIdle /\ StatusIdle /\ CatalogIdle /\ QuickIdle
SpecLedger == InitLedger /\ [][LedgerNext]_vars

SpecLedgerCalls == InitLedger /\ [][LedgerCallsNext]_vars

InitImport == CalcIdle /\ CodeIdle /\ LedgerIdle /\ ImportIdle /\ StatusIdle /\ CatalogIdle /\ QuickIdle
SpecImport == InitImport /\ [][ImportNext]_vars

InitStatus == CalcIdle /\ CodeIdle /\ LedgerIdle /\ StatusInit /\ CatalogIdle /\ QuickIdle
SpecStatus == InitStatus /\ [][StatusNext]_vars

InitQuick == CalcIdle /\ CodeIdle /\ LedgerIdle /\ QuickInit /\ CatalogIdle
SpecQuick == InitQuick /\ [][QuickNext]_vars

InitShop == CalcIdle /\ CodeIdle /\ ShopInit /\ CatalogIdle
SpecShop == InitShop /\ [][ShopNext]_vars

InitCatalog == CalcIdle /\ CodeIdle /\ LedgerIdle /\ ImportIdle /\ StatusIdle /\ CatalogInit /\ QuickIdle
SpecCatalog == InitCatalog /\ [][CatalogNext]_vars

\* ============================================================================
\* Properties
\* ============================================================================

\* ---------------------------------------------------------------- ledger
\* C1: for every material the persisted on_hand and the on_hand every session
\* displays are >= 0 in every reachable state, whatever the sequence of + and -
\* clicks and whichever of the writes and reloads fail.
OnHandNeverNegative ==
    /\ \A m \in Materials : dbOnHand[m] >= 0
    /\ \A s \in Sessions : \A m \in DOMAIN display[s] : display[s][m] >= 0
    /\ \A i \in DOMAIN ops : ops[i].newQuantity >= 0

\* A decrement down to 0 has been persisted, the - button is now disabled in
\* that session, and another write has failed.
DecrementedToZero ==
    \E i, j \in DOMAIN ops :
        /\ ops[i].kind = "update" /\ ops[i].phase = "done" /\ ~ops[i].writeFailed
        /\ ops[i].newQuantity = 0
        /\ dbOnHand[ops[i].materialId] = 0
        /\ display[ops[i].session][ops[i].materialId] = 0
        /\ DecrementClick(display[ops[i].session][ops[i].materialId]) = {}
        /\ ops[j].writeFailed

UpdateCalls == {i \in DOMAIN ops : ops[i].kind = "update"}

\* C2: when the write of the only updateQuantity call made so far has failed and
\* the call (with the reload it started) has finished, an error toast was shown
\* and the session displays the persisted on_hand again.
FailedWriteIsReverted ==
    \A i \in DOMAIN ops :
        (/\ UpdateCalls = {i}
         /\ ops[i].writeFailed
         /\ ops[i].phase = "done")
        => /\ ops[i].toasts # <<>> /\ ops[i].toasts[1] = "Failed to update quantity"
           /\ display[ops[i].session][ops[i].materialId] = dbOnHand[ops[i].materialId]

\* ------------------------------------------------------------ calculator
EmptyBom == bom.isNull \/ Len(bom.items) = 0

AllPresent == \A j \in DOMAIN bom.items : bom.items[j].materialId \in DOMAIN materialsMap

LineFloors ==
    {materialsMap[bom.items[j].materialId].on_hand \div bom.items[j].qty :
        j \in DOMAIN bom.items}

ExampleOneLine == <<[materialId |-> "m1", qty |-> 3]>>
ExampleTwoLines == <<[materialId |-> "m1", qty |-> 2], [materialId |-> "m2", qty |-> 5]>>

\* C3: for a non-empty BOM whose materials are all in the lookup, calculateSellable
\* returns the minimum over the lines of floor(on_hand / qty); [{X,3}] with on_hand
\* 10 gives 3, [{m1,2},{m2,5}] with on_hand 10 and 12 gives 2.
SellableIsMinimum ==
    (calcPc = "calculated" /\ ~EmptyBom /\ AllPresent)
    => /\ sellable \in LineFloors
       /\ \A v \in LineFloors : sellable <= v
       /\ (bom.items = ExampleOneLine /\ materialsMap["m1"].on_hand = 10) => sellable = 3
       /\ (/\ bom.items = ExampleTwoLines
           /\ materialsMap["m1"].on_hand = 10
           /\ materialsMap["m2"].on_hand = 12) => sellable = 2

TwoLineExampleCalculated ==
    /\ calcPc = "calculated"
    /\ bom.items = ExampleTwoLines
    /\ materialsMap["m1"].on_hand = 10 /\ materialsMap["m2"].on_hand = 12
    /\ sellable = 2

\* C4 as claimed: calculateSellable of an empty or absent BOM returns a value
\* other than 0.
EmptyBomIsNotZero ==
    (calcPc = "calculated" /\ EmptyBom) => sellable # 0

IsDecimalString(str) ==
    /\ str # <<>>
    /\ \A k \in DOMAIN str : IsDigitChar(str[k])

\* C4 as amended: calculateSellable returns 0 for an empty or absent BOM; the
\* sentinel is produced by getSellableQuantity, which renders the em dash for
\* such a product and a decimal number (never the em dash) for every other one.
EmptyBomRendersDash ==
    /\ (calcPc = "calculated" /\ EmptyBom) => sellable = 0
    /\ (calcPc = "rendered" /\ EmptyBom)
       => rendered = EmDash /\ ~IsDecimalString(rendered)
    /\ (calcPc = "rendered" /\ ~EmptyBom) => IsDecimalString(rendered)

EmptyBomRendered ==
    /\ calcPc = "rendered" /\ EmptyBom
    /\ sellable = 0
    /\ rendered = EmDash

\* C5: a non-empty BOM with a line whose material is not in the lookup gives 0,
\* wherever that line stands and whatever the stock of the other materials.
MissingMaterialGivesZero ==
    (/\ calcPc = "calculated" /\ ~EmptyBom
     /\ \E j \in DOMAIN bom.items : bom.items[j].materialId \notin DOMAIN materialsMap)
    => sellable = 0

MissingFirstThenStocked ==
    /\ calcPc = "calculated"
    /\ Len(bom.items) = 2
    /\ bom.items[1].materialId \notin DOMAIN materialsMap
    /\ bom.items[2].materialId \in DOMAIN materialsMap
    /\ materialsMap[bom.items[2].materialId].on_hand >= bom.items[2].qty
    /\ sellable = 0

\* --------------------------------------------------------- code generator
Base36Value(c) == CHOOSE d \in 0..35 : Upper36[d + 1] = c

\* digits * 36 + carry on base-16 digits, most significant first.
RECURSIVE Times36Plus(_, _)
Times36Plus(ds, carry) ==
    IF ds = <<>>
    THEN IF carry = 0 THEN <<>> ELSE Append(Times36Plus(<<>>, carry \div 16), carry % 16)
    ELSE LET cur == ds[Len(ds)] * 36 + carry
         IN  Append(Times36Plus(SubSeq(ds, 1, Len(ds) - 1), cur \div 16), cur % 16)

\* The base-16 digits of the number a base-36 numeral denotes.
RECURSIVE Base36ToHex(_, _)
Base36ToHex(str, acc) ==
    IF str = <<>> THEN StripLeadingZeros(acc)
    ELSE Base36ToHex(Tail(str), Times36Plus(acc, Base36Value(Head(str))))

IsBase36String(str) ==
    /\ str # <<>>
    /\ \A k \in DOMAIN str : \E d \in 1..36 : Upper36[d] = str[k]

\* YY-X: two decimal digits, a hyphen, one or more characters of [0-9A-Z].
WellFormedCode(c) ==
    /\ Len(c) >= 4
    /\ IsDecimalString(SubSeq(c, 1, 2))
    /\ c[3] = "-"
    /\ IsBase36String(SubSeq(c, 4, Len(c)))

HexTail(id) == SliceLast(StripHyphens(id), 8)

\* C6: the code is YY-X, YY the two digits of year mod 100, X one or more of
\* [0-9A-Z]; when the last 8 characters of the identifier without hyphens are
\* hexadecimal digits, X is the base-36 numeral (no leading zero, "0" for zero) of
\* their value, so the code is a function of the identifier and the year alone.
OrderCodeFormat ==
    codePc = "generated" =>
        LET x    == SubSeq(code, 4, Len(code))
            tail == HexTail(orderId)
        IN  /\ WellFormedCode(code)
            /\ code[1] = Upper36[((year % 100) \div 10) + 1]
            /\ code[2] = Upper36[((year % 100) % 10) + 1]
            /\ (tail # <<>> /\ \A k \in DOMAIN tail : IsHexChar(tail[k]))
               => /\ Base36ToHex(x, <<>>)
                     = StripLeadingZeros([k \in DOMAIN tail |-> HexValue(tail[k])])
                  /\ (Len(x) > 1 => x[1] # "0")

\* A 36-character identifier whose tail is ffffffff, in a year that needs padding.
LargestTailGenerated ==
    /\ codePc = "generated"
    /\ Len(orderId) > 8
    /\ HexTail(orderId) = <<"f","f","f","f","f","f","f","f">>
    /\ year = 2005
    /\ code = <<"0","5","-","1","Z","1","4","1","Z","3">>

\* ------------------------------------------------------------------ import
\* C7: the code the import generates for an order it is about to create (a call
\* of the generator without identifier) is a well-formed YY-X code; the call
\* does not fail.
ImportCodeIsWellFormed ==
    \A s \in Sessions :
        imp[s].orderCode # <<>> => WellFormedCode(imp[s].orderCode)

Resolves(g) == ResolveProducts(g) # {}

AllResolve(g) ==
    /\ \A sku \in GroupSkus(g) : \E p \in ProductsTable : p.sku = sku /\ ~p.archived
    /\ Cardinality(GroupSkus(g)) = Len(g.lines)

ReportedIn(list, g) ==
    \E j \in DOMAIN list :
        list[j].external_id = g.external_id /\ list[j].channel = g.channel

LinesOf(orderRowId) == {j \in DOMAIN orderLines : orderLines[j].order_id = orderRowId}

\* C8: an import, met by no persistence failure and with no other session
\* importing, of a file whose rows share one (channel, external_id) and carry n
\* distinct SKUs that all resolve, with no such order found by the lookup, leaves
\* exactly one order for the pair (PENDING, with the customer name of the file)
\* owning n order lines, reported under new orders.
SinglePairImportCreatesOneOrder ==
    \A s \in Sessions :
        (/\ imp[s].pc = "done" /\ ~imp[s].ioFailed
         /\ \A t \in Sessions \ {s} : imp[t].round = 0
         /\ Len(imp[s].groups) = 1
         /\ AllResolve(imp[s].groups[1])
         /\ imp[s].existingOrders = <<>>)
        => LET g == imp[s].groups[1]
           IN  /\ Len(imp[s].newOrders) = 1 /\ ReportedIn(imp[s].newOrders, g)
               /\ Cardinality(Matching(g)) = 1
               /\ \A k \in Matching(g) :
                     /\ orders[k].status = "PENDING"
                     /\ orders[k].customer_name = g.customer_name
                     /\ Cardinality(LinesOf(orders[k].id)) = Len(g.lines)

StatusEdges ==
    { <<"PENDING", "IN_PROGRESS">>, <<"PENDING", "SHIPPED">>, <<"IN_PROGRESS", "SHIPPED">> }

\* This step is the UPDATE of call i of session s, and it succeeds.
WriteSucceeds(s, i) ==
    /\ i \in DOMAIN statusOps[s]
    /\ IsUpdate(statusOps[s][i])
    /\ statusOps[s][i].phase = "request"
    /\ Len(statusOps'[s]) = Len(statusOps[s])
    /\ statusOps'[s][i].phase = "response"
    /\ ~statusOps'[s][i].error

\* This step is the UPDATE of call i of session s, and it fails.
WriteFails(s, i) ==
    /\ i \in DOMAIN statusOps[s]
    /\ IsUpdate(statusOps[s][i])
    /\ statusOps[s][i].phase = "request"
    /\ Len(statusOps'[s]) = Len(statusOps[s])
    /\ statusOps'[s][i].phase = "response"
    /\ statusOps'[s][i].error

\* This step is the return of call i of session s.
Returns(s, i) ==
    /\ i \in DOMAIN statusOps[s]
    /\ IsUpdate(statusOps[s][i])
    /\ statusOps[s][i].phase = "response"
    /\ statusOps'[s] = Returned(statusOps[s], i)

\* C11: every change of a persisted status written by an updateOrderStatus call
\* of the order detail page goes along PENDING -> IN_PROGRESS, PENDING -> SHIPPED
\* or IN_PROGRESS -> SHIPPED; a persisted SHIPPED is never changed by such a call.
DetailPageFollowsStatusEdges ==
    [][\A s \in Sessions, i \in StatusOpIds :
          (WriteSucceeds(s, i) /\ statusOps[s][i].kind = "detail")
          => \A k \in DOMAIN orders :
                orders'[k].status # orders[k].status
                => <<orders[k].status, orders'[k].status>> \in StatusEdges]_vars

\* C12: every step that changes a persisted order is the UPDATE of one call in
\* flight and sets the status, the carrier and the tracking of that call together:
\* no state has the new status with the old carrier or tracking, nor the reverse.
Written(updateData, field, old) ==
    IF field \in DOMAIN updateData THEN updateData[field] ELSE old

ShippedIsOneUpdate ==
    [][\A k \in DOMAIN orders :
          orders'[k] # orders[k]
          => \E s \in Sessions, i \in StatusOpIds :
                /\ WriteSucceeds(s, i)
                /\ statusOps[s][i].orderId = orders[k].id
                /\ orders'[k].status = statusOps[s][i].updateData.status
                /\ orders'[k].carrier =
                      Written(statusOps[s][i].updateData, "carrier", orders[k].carrier)
                /\ orders'[k].tracking =
                      Written(statusOps[s][i].updateData, "tracking", orders[k].tracking)]_vars

\* Mark as Shipped with carrier UPS and tracking 1Z999 has been written.
ShippedWithUps ==
    /\ orders[1].status = "SHIPPED"
    /\ orders[1].carrier = "UPS"
    /\ orders[1].tracking = "1Z999"
    /\ \E s \in Sessions, i \in StatusOpIds :
          /\ i \in DOMAIN statusOps[s]
          /\ statusOps[s][i].kind = "detail"
          /\ statusOps[s][i].phase = "response"
          /\ statusOps[s][i].args = <<"SHIPPED", "UPS", "1Z999">>

\* C13: when a successful updateOrderStatus returns, the copy of the order in the
\* page's state has the status, carrier and tracking that were written, on the
\* order detail page and on the fulfillment page.
CopyMatchesWritten ==
    [][\A s \in Sessions, i \in StatusOpIds :
          (Returns(s, i) /\ ~statusOps[s][i].error)
          => LET op == statusOps[s][i]
             IN  /\ (op.kind = "detail" /\ detail'[s].order # NullOrder)
                    => \A f \in DOMAIN op.updateData :
                          detail'[s].order[f] = op.updateData[f]
                 /\ op.kind = "list"
                    => \A k \in DOMAIN fulfillment'[s].orders :
                          fulfillment'[s].orders[k].id = op.orderId
                          => \A f \in DOMAIN op.updateData :
                                fulfillment'[s].orders[k][f] = op.updateData[f]]_vars

\* C14: a failed UPDATE changes no persisted order, and when the failed call
\* returns the displayed order (or list) is the one displayed before and the
\* page shows its error toast.
FailedUpdateChangesNothing ==
    [][\A s \in Sessions, i \in StatusOpIds :
          /\ WriteFails(s, i) => orders' = orders
          /\ (Returns(s, i) /\ statusOps[s][i].error)
             => /\ orders' = orders
                /\ detail'[s].order = detail[s].order
                /\ fulfillment'[s].orders = fulfillment[s].orders
                /\ statusOps[s][i].kind = "detail"
                   => detail'[s].toast = "Failed to update order"
                /\ statusOps[s][i].kind = "list"
                   => fulfillment'[s].toast = "Failed to update order status"]_vars

\* Mark as Shipped has failed and returned: the error toast is up, the order is
\* still PENDING in the table and on the page.
FailedShipmentReported ==
    \E s \in Sessions :
       /\ detail[s].toast = "Failed to update order"
       /\ detail[s].order = orders[1]
       /\ orders[1].status = "PENDING"
       /\ detail[s].carrier = "UPS"
       /\ statusOps[s] = <<>>
       /\ statusCalls = 1

\* ---------------------------------------------------------------- CSV import, errors
\* Papa.parse reported errors for the file, or a required column is not among
\* its header fields.
Malformed(f) ==
    f # "none" /\ (CsvFiles[f].parseError \/ RequiredColumns \ CsvFiles[f].headers # {})

\* C15: after the upload of a CSV that does not parse or lacks a required column
\* the page shows the explicit error, importOrders has not been entered (no
\* request was made, no order or line written) and no import summary exists.
MalformedCsvAborts ==
    \A s \in Sessions :
       Malformed(imp[s].file)
       => /\ imp[s].pc = "idle"
          /\ imp[s].toast = (IF CsvFiles[imp[s].file].parseError
                             THEN "CSV parsing error" ELSE "Missing required columns")
          /\ imp[s].groups = <<>>
          /\ ~imp[s].ioFailed
          /\ imp[s].newOrders = <<>> /\ imp[s].existingOrders = <<>>
          /\ imp[s].errors = <<>> /\ ~imp[s].success

\* Both kinds of malformed file have been uploaded.
MalformedCsvUploaded ==
    /\ imp["s1"].file = "no_qty" /\ imp["s1"].toast = "Missing required columns"
    /\ imp["s2"].file = "broken" /\ imp["s2"].toast = "CSV parsing error"

\* The entries of the error list that name the group.
ErrorsAbout(rec, g) ==
    {j \in DOMAIN rec.errors : rec.errors[j].external_id = g.external_id}

GroupErrorsAreIsolated ==
    [][\A s \in Sessions :
          Len(imp'[s].errors) > Len(imp[s].errors)
          => /\ imp'[s].errors = Append(imp[s].errors, imp'[s].errors[Len(imp'[s].errors)])
             /\ imp'[s].errors[Len(imp'[s].errors)].external_id
                   = imp[s].groups[imp[s].i].external_id
             /\ imp'[s].newOrders = imp[s].newOrders
             /\ imp'[s].existingOrders = imp[s].existingOrders
             /\ imp'[s].groups = imp[s].groups
             /\ imp'[s].products = {} /\ imp'[s].order = 0
             /\ IF imp[s].i < Len(imp[s].groups)
                THEN imp'[s].pc = "lookup" /\ imp'[s].i = imp[s].i + 1
                ELSE /\ imp'[s].pc = "done"
                     /\ Len(imp'[s].newOrders) + Len(imp'[s].existingOrders)
                           + Len(imp'[s].errors) = Len(imp'[s].groups)]_vars

\* The first group of the batch failed in the try block, the second group was
\* processed after it and has its own entry.
SecondGroupProcessedAfterError ==
    \E s \in Sessions :
       /\ imp[s].pc = "done" /\ imp[s].file = "two_orders" /\ ~imp[s].ioFailed
       /\ imp[s].errors = << [message |-> "Failed to import order", external_id |-> "ORDER1"],
                             [message |-> "No products found for order", external_id |-> "ORDER2"] >>

\* -------------------------------------------------------------------- SKUs
\* C19: whenever an insert or update is refused for a SKU that is taken (error
\* code 23505), in addMaterial, addProduct or updateProduct, the page shows
\* "SKU already exists" and its lists and the tables are as before.
UniqueViolationSaysSkuExists ==
    [][\A s \in Sessions :
          (catalog'[s] # catalog[s] /\ catalog'[s].error = "23505")
          => /\ catalog'[s].toast = "SKU already exists"
             /\ catalog'[s].materials = catalog[s].materials
             /\ catalog'[s].products = catalog[s].products
             /\ catalogDb' = catalogDb]_vars

\* ---------------------------------------------------------------- CSV import, grouping
\* The rows of a file that the loop does not skip, and their (channel, external_id).
KeptRows(f) ==
    {k \in DOMAIN CsvFiles[f].rows :
        LET row == CsvFiles[f].rows[k]
        IN  row.external_id # "" /\ row.channel # "" /\ row.sku # ""}

PairsOf(f) ==
    {<<CsvFiles[f].rows[k].channel, CsvFiles[f].rows[k].external_id>> : k \in KeptRows(f)}

\* C20: the groups of an uploaded file are its (channel, external_id) pairs: one
\* group per pair, holding one line for every row of that pair and no other.
GroupsAreThePairs ==
    \A s \in Sessions :
        imp[s].groups # <<>>
        => LET f == imp[s].file
           IN  /\ Len(imp[s].groups) = Cardinality(PairsOf(f))
               /\ \A j \in DOMAIN imp[s].groups :
                     Len(imp[s].groups[j].lines) =
                        Cardinality({k \in KeptRows(f) :
                            /\ CsvFiles[f].rows[k].channel = imp[s].groups[j].channel
                            /\ CsvFiles[f].rows[k].external_id = imp[s].groups[j].external_id})

\* ---------------------------------------------------------------- CSV import, rows
\* The rows of a file that went into the group, in file order.
RowsOfGroup(f, g) == {k \in KeptRows(f) : OrderKey(CsvFiles[f].rows[k]) = g.key}

NamedRows(f, g) == {k \in RowsOfGroup(f, g) : CsvFiles[f].rows[k].customer_name # ""}

\* C21: the customer_name of a group is that of the first of its rows, in file
\* order, whose customer_name is not empty, and empty only when all are empty.
FirstNonEmptyNameWins ==
    \A s \in Sessions :
        \A j \in DOMAIN imp[s].groups :
            LET f == imp[s].file
                g == imp[s].groups[j]
                named == NamedRows(f, g)
            IN  g.customer_name =
                   (IF named = {} THEN ""
                    ELSE CsvFiles[f].rows[CHOOSE k \in named : \A n \in named : k <= n].customer_name)

\* C22: every line the upload accumulates has an integer qty >= 1, and so has
\* every order line the import writes.
LineQtyAtLeastOne ==
    /\ \A s \in Sessions :
          \A j \in DOMAIN imp[s].groups :
              \A l \in DOMAIN imp[s].groups[j].lines : imp[s].groups[j].lines[l].qty >= 1
    /\ \A j \in DOMAIN orderLines : orderLines[j].qty >= 1

\* The lines of all groups, as (group, position) pairs.
LinesOfGroups(groups) ==
    UNION {{<<j, l>> : l \in DOMAIN groups[j].lines} : j \in DOMAIN groups}

\* C23: a row with an empty external_id, channel or sku is in no group; the
\* upload of a file holding such rows shows no error for them, no entry of the
\* error list names anything but a group, and the other rows are all grouped and
\* handed to importOrders.
IncompleteRowsAreSkipped ==
    \A s \in Sessions :
        (imp[s].file # "none" /\ ~Malformed(imp[s].file))
        => LET f    == imp[s].file
               rows == CsvFiles[f].rows
               gs   == imp[s].groups
           IN  /\ imp[s].toast = "none"
               /\ Cardinality(LinesOfGroups(gs)) = Cardinality(KeptRows(f))
               /\ \A k \in KeptRows(f) :
                     \E j \in DOMAIN gs : \E l \in DOMAIN gs[j].lines :
                         gs[j].key = OrderKey(rows[k]) /\ gs[j].lines[l].sku = rows[k].sku
               /\ \A j \in DOMAIN gs :
                     /\ gs[j].external_id # "" /\ gs[j].channel # ""
                     /\ \A l \in DOMAIN gs[j].lines : gs[j].lines[l].sku # ""
               /\ KeptRows(f) # {} => imp[s].pc # "idle"
               /\ \A e \in DOMAIN imp[s].errors :
                     \E j \in DOMAIN gs : gs[j].external_id = imp[s].errors[e].external_id
               /\ Len(imp[s].errors) <= Len(gs)

\* The file with a row without external_id between two rows of ORDER3 has been
\* imported: one group of two lines, the row of Dee in none.
IncompleteRowSkipped ==
    \E s \in Sessions :
        /\ imp[s].file = "partly" /\ imp[s].pc = "done"
        /\ Len(imp[s].groups) = 1
        /\ Len(imp[s].groups[1].lines) = 2
        /\ \A l \in DOMAIN imp[s].groups[1].lines : imp[s].groups[1].lines[l].sku # "CRT-M"
        /\ Len(imp[s].errors) = 1

\* ---------------------------------------------------------------- CSV import, products
\* C24: the step that answers the products query of a group none of whose SKUs
\* is the SKU of a non-archived product appends one "No products found" error
\* for the group, writes no order and no order line, and leaves the group: the
\* import goes on with the next group or returns.
NoProductsIsAnError ==
    [][\A s \in Sessions :
          (/\ imp[s].pc = "products" /\ imp'[s] # imp[s]
           /\ ~Resolves(imp[s].groups[imp[s].i]))
          => /\ imp'[s].errors =
                   Append(imp[s].errors,
                          [message |-> "No products found for order",
                           external_id |-> imp[s].groups[imp[s].i].external_id])
             /\ imp'[s].newOrders = imp[s].newOrders
             /\ imp'[s].existingOrders = imp[s].existingOrders
             /\ orders' = orders /\ orderLines' = orderLines
             /\ imp'[s].pc \in {"lookup", "done"}
             /\ imp'[s].pc = "lookup" => imp'[s].i = imp[s].i + 1]_vars

\* An import met by no persistence failure has returned with the error for
\* ORDER2, whose only SKU is unknown, and there is no order for ORDER2.
NoProductsReported ==
    \E s \in Sessions :
        /\ imp[s].pc = "done" /\ ~imp[s].ioFailed
        /\ \E e \in DOMAIN imp[s].errors :
              imp[s].errors[e] = [message |-> "No products found for order",
                                  external_id |-> "ORDER2"]
        /\ \A k \in DOMAIN orders : orders[k].external_id # "ORDER2"
        /\ ~ReportedIn(imp[s].newOrders, [external_id |-> "ORDER2", channel |-> "ETSY"])

\* The lines of a group whose SKU is the SKU of a non-archived product.
ResolvingLines(g) ==
    {l \in DOMAIN g.lines : \E p \in ProductsTable : p.sku = g.lines[l].sku /\ ~p.archived}

\* C25: an import, met by no persistence failure and with no other session
\* importing, of a group of which some but not all SKUs resolve and which the
\* lookup did not find, leaves one order for the group owning exactly one line
\* per resolving line (its product, its qty), no error about the group, and
\* the group under new orders.
PartlyResolvedGroupIsCreated ==
    \A s \in Sessions :
        (/\ imp[s].pc = "done" /\ ~imp[s].ioFailed
         /\ \A t \in Sessions \ {s} : imp[t].round = 0)
        => \A j \in DOMAIN imp[s].groups :
              LET g == imp[s].groups[j]
              IN  (/\ ResolvingLines(g) # {}
                   /\ ResolvingLines(g) # DOMAIN g.lines
                   /\ ~ReportedIn(imp[s].existingOrders, g))
                  => /\ ReportedIn(imp[s].newOrders, g)
                     /\ ErrorsAbout(imp[s], g) = {}
                     /\ Cardinality(Matching(g)) = 1
                     /\ \A k \in Matching(g) :
                           /\ Cardinality(LinesOf(orders[k].id))
                                 = Cardinality(ResolvingLines(g))
                           /\ \A l \in ResolvingLines(g) :
                                 \E n \in LinesOf(orders[k].id) :
                                    /\ orderLines[n].qty = g.lines[l].qty
                                    /\ \E p \in ProductsTable :
                                          /\ p.sku = g.lines[l].sku
                                          /\ p.id = orderLines[n].product_id

\* ---------------------------------------------------------------- ledger, concurrency
\* The step completes the write of call i successfully.
WriteApplied(i) ==
    /\ i \in DOMAIN ops
    /\ ops[i].kind = "update" /\ ops[i].phase = "write"
    /\ ops'[i].phase = "done" /\ ~ops'[i].writeFailed

\* C26: a write that is applied sets the persisted on_hand of its material to
\* the value the call sent, whatever was persisted before, and on_hand changes
\* in no other way; so after two writes the value of the one applied last is
\* persisted, and two sessions that both sent v+1 for a material leave v+1.
LastWriterWins ==
    /\ [][/\ \A i \in OpIds :
                WriteApplied(i)
                => dbOnHand' = [dbOnHand EXCEPT ![ops[i].materialId] = ops[i].newQuantity]
          /\ dbOnHand' # dbOnHand => \E i \in OpIds : WriteApplied(i)]_vars
    /\ [](\A i, j \in DOMAIN ops :
             (/\ ops[i].kind = "update" /\ ops[j].kind = "update"
              /\ ops[i].session # ops[j].session
              /\ ops[i].materialId = ops[j].materialId
              /\ ops[i].newQuantity = ops[j].newQuantity
              /\ ops[i].phase = "done" /\ ~ops[i].writeFailed
              /\ ops[j].phase = "done" /\ ~ops[j].writeFailed
              /\ \A k \in UpdateCalls : k \in {i, j})
             => dbOnHand[ops[i].materialId] = ops[i].newQuantity)

\* Both sessions displayed 0 for m1 and clicked +: both writes of 1 have been
\* applied and 1, not 2, is persisted.
TwoIncrementsLeaveOne ==
    \E i, j \in DOMAIN ops :
        /\ ops[i].kind = "update" /\ ops[i].session = "s1"
        /\ ops[j].kind = "update" /\ ops[j].session = "s2"
        /\ ops[i].materialId = "m1" /\ ops[j].materialId = "m1"
        /\ ops[i].newQuantity = 1 /\ ops[j].newQuantity = 1
        /\ ops[i].phase = "done" /\ ~ops[i].writeFailed
        /\ ops[j].phase = "done" /\ ~ops[j].writeFailed
        /\ dbOnHand["m1"] = 1
        /\ display["s1"]["m1"] = 1 /\ display["s2"]["m1"] = 1

\* C27: a call of updateQuantity with a negative newQuantity changes nothing on
\* the page, sends no write, and no write of a negative value is ever applied.
NegativeQuantityIsRejected ==
    [][/\ \A i \in OpIds :
             (i \in DOMAIN ops' /\ i \notin DOMAIN ops /\ ops'[i].newQuantity < 0)
             => display' = display /\ ops'[i].phase # "write"
       /\ \A i \in OpIds : WriteApplied(i) => ops[i].newQuantity >= 0
       /\ \A m \in Materials : dbOnHand[m] >= 0 => dbOnHand'[m] >= 0]_vars

\* C30: when all calls and reloads of a session have finished, no reload
\* having failed and no other session having written, the session displays the
\* persisted on_hand of every material.
DisplaySettlesOnPersisted ==
    \A s \in Sessions :
        (/\ \A i \in DOMAIN ops : ops[i].phase = "done"
         /\ \A i \in UpdateCalls : ops[i].session = s
         /\ \A i \in DOMAIN ops :
               \A n \in DOMAIN ops[i].toasts : ops[i].toasts[n] # "Failed to load materials")
        => display[s] = dbOnHand

\* ---------------------------------------------------------------- manual orders
\* C29: when no createQuickOrder call is in flight, every order has a code
\* and at least one order line.
QuickOrderIsWhole ==
    (\A s \in Sessions : quick[s].pc = "idle")
    => \A k \in DOMAIN orders :
          /\ orders[k].code # NoCode
          /\ LinesOf(orders[k].id) # {}

\* ---------------------------------------------------------------- orders and stock
\* C28: a step of the quick order, of the import or of a status change (a step
\* that changes an order table or the state of one of these operations) leaves
\* the persisted on_hand of every material as it is; on_hand changes only in the
\* step that applies the write of an updateQuantity call.
OrdersLeaveStockAlone ==
    [][/\ (\/ orders' # orders \/ orderLines' # orderLines
           \/ imp' # imp \/ quick' # quick
           \/ detail' # detail \/ fulfillment' # fulfillment
           \/ statusOps' # statusOps \/ statusCalls' # statusCalls)
          => dbOnHand' = dbOnHand
       /\ dbOnHand' # dbOnHand => \E i \in OpIds : WriteApplied(i)]_vars

\* A quick order has been created with its line and the opened order has been
\* marked shipped: every material still has the stock it had, which the
\* materials page displays.
OrdersDoneStockKept ==
    /\ \E k \in DOMAIN orders :
          /\ orders[k].channel = "MANUAL" /\ orders[k].id \notin OrderIds
          /\ orders[k].code # NoCode
          /\ LinesOf(orders[k].id) # {}
    /\ \E k \in DOMAIN orders : orders[k].id = OpenedOrder /\ orders[k].status = "SHIPPED"
    /\ quick[OrderSession].pc = "idle" /\ statusOps[OrderSession] = <<>>
    /\ dbOnHand = [m \in Materials |-> 1]
    /\ display[StockSession] = dbOnHand

====
